---- MODULE Spec2Model ----
(***************************************************************************)
(* Emerald Finance App: the finance-snapshot aggregation pipeline          *)
(* (lib/finance/from-transactions.ts), the spending summary                *)
(* (lib/ai/finance.ts) and the evaluation engine (lib/ai/evaluations.ts).  *)
(*                                                                         *)
(* A TypeScript `number` is a binary floating-point value: every           *)
(* arithmetic operation returns the exact result rounded to the nearest    *)
(* value with a fixed number of significant bits (ties to even).  The      *)
(* model keeps that semantics with SigBits significant bits; values are    *)
(* held as normalised fractions <<n, d>>.  Timestamps are whole numbers    *)
(* far below 2^SigBits in the program, so time arithmetic is exact.        *)
(***************************************************************************)
EXTENDS Integers, Sequences, FiniteSets, TLC

\* ------------------------------------------------------------------ bounds
\* significant bits of a number (the program's doubles carry 53)
SigBits == 7
\* longest transaction list drawn from the pool
MaxTx == 4

\* ----------------------------------------------------------------- numbers
Abs(i) == IF i < 0 THEN -i ELSE i

RECURSIVE Gcd(_, _)
Gcd(a, b) == IF b = 0 THEN a ELSE Gcd(b, a % b)

RECURSIVE Pow2(_)
Pow2(k) == IF k = 0 THEN 1 ELSE 2 * Pow2(k - 1)

\* the fraction n/d in lowest terms, d > 0
Q(n, d) ==
    LET s == IF d < 0 THEN -1 ELSE 1
        g == Gcd(Abs(n), Abs(d))
    IN  <<(s * n) \div g, (s * d) \div g>>

Zero == Q(0, 1)
Num(i) == Q(i, 1)

QAdd(x, y) == Q(x[1] * y[2] + y[1] * x[2], x[2] * y[2])
QSub(x, y) == Q(x[1] * y[2] - y[1] * x[2], x[2] * y[2])
QMul(x, y) == Q(x[1] * y[1], x[2] * y[2])
QDiv(x, y) == Q(x[1] * y[2], x[2] * y[1])
QNeg(x) == <<-x[1], x[2]>>
QAbs(x) == <<Abs(x[1]), x[2]>>
Lt(x, y) == x[1] * y[2] < y[1] * x[2]
Le(x, y) == x[1] * y[2] <= y[1] * x[2]
Gt(x, y) == Lt(y, x)
Ge(x, y) == Le(y, x)
IsInt(x) == x[2] = 1

\* floor of a fraction (\div rounds toward minus infinity)
QFloor(x) == x[1] \div x[2]

\* the nearest integer to n/d, ties to the even one
NearestEven(n, d) ==
    LET m == n \div d
        r == n % d
    IN  IF 2 * r > d \/ (2 * r = d /\ m % 2 = 1) THEN m + 1 ELSE m

\* a positive n/d rounded to SigBits significant bits
RECURSIVE FlPos(_, _, _)
FlPos(n, d, e) ==
    IF n >= d * Pow2(SigBits) THEN FlPos(n, 2 * d, e + 1)
    ELSE IF n < d * Pow2(SigBits - 1) THEN FlPos(2 * n, d, e - 1)
    ELSE LET m == NearestEven(n, d)
         IN  IF e >= 0 THEN Q(m * Pow2(e), 1) ELSE Q(m, Pow2(-e))

\* the floating-point value nearest to the fraction x
Fl(x) ==
    IF x[1] = 0 THEN Zero
    ELSE IF x[1] > 0 THEN FlPos(x[1], x[2], 0)
    ELSE QNeg(FlPos(-x[1], x[2], 0))

\* a decimal literal of the source, n/d, as the number the program holds
Lit(n, d) == Fl(Q(n, d))

\* the program's arithmetic: exact result, then rounded
Plus(x, y) == Fl(QAdd(x, y))
Minus(x, y) == Fl(QSub(x, y))
Times(x, y) == Fl(QMul(x, y))
Over(x, y) == Fl(QDiv(x, y))

QMax(x, y) == IF Lt(x, y) THEN y ELSE x
QMin(x, y) == IF Lt(y, x) THEN y ELSE x

\* Math.round: the nearest integer, a tie going up
MathRound(x) == Num(QFloor(QAdd(x, Q(1, 2))))

\* mutant: only the lower bound is applied
clamp_NoUpper(n, min, max) == QMax(min, n)

clamp(n, min, max) == QMax(min, QMin(max, n))

\* ----------------------------------------------------------------- strings
\* A string is a sequence of one-character strings; an optional value is the
\* empty sequence (null / undefined) or a one-element sequence.
Null == <<>>
Some(v) == <<v>>
IsNull(o) == o = <<>>
Val(o) == o[1]

Lower == <<"a","b","c","d","e","f","g","h","i","j","k","l","m",
           "n","o","p","q","r","s","t","u","v","w","x","y","z">>
Upper == <<"A","B","C","D","E","F","G","H","I","J","K","L","M",
           "N","O","P","Q","R","S","T","U","V","W","X","Y","Z">>

UpperChar(c) ==
    IF \E k \in 1..Len(Lower) : Lower[k] = c
    THEN Upper[CHOOSE k \in 1..Len(Lower) : Lower[k] = c]
    ELSE c

toUpperCase(s) == [k \in 1..Len(s) |-> UpperChar(s[k])]

LowerChar(c) ==
    IF \E k \in 1..Len(Upper) : Upper[k] = c
    THEN Lower[CHOOSE k \in 1..Len(Upper) : Upper[k] = c]
    ELSE c

toLowerCase(s) == [k \in 1..Len(s) |-> LowerChar(s[k])]

includes(s, sub) ==
    \E k \in 0..(Len(s) - Len(sub)) :
        \A j \in 1..Len(sub) : s[k + j] = sub[j]

IsSpace(c) == c = " "

RECURSIVE trimStart(_)
trimStart(s) == IF s # <<>> /\ IsSpace(Head(s)) THEN trimStart(Tail(s)) ELSE s

RECURSIVE trimEnd(_)
trimEnd(s) ==
    IF s # <<>> /\ IsSpace(s[Len(s)]) THEN trimEnd(SubSeq(s, 1, Len(s) - 1)) ELSE s

trim(s) == trimEnd(trimStart(s))

\* ------------------------------------------------- from-transactions.ts
Periods == {"1W", "1M", "3M", "1Y", "ALL"}

\* length of a day in the model's time unit: the source counts milliseconds
\* (24 * 60 * 60 * 1000), the model counts hours
DayMs == 24

\* mutant: the year is cut into 13 buckets
getBucketConfig_YearBy13(period) ==
    CASE period = "1W" -> [len |-> 7, labelStyle |-> "dow", windowDays |-> 7]
      [] period = "1M" -> [len |-> 12, labelStyle |-> "week", windowDays |-> 30]
      [] period = "3M" -> [len |-> 18, labelStyle |-> "week", windowDays |-> 90]
      [] period = "1Y" -> [len |-> 13, labelStyle |-> "month", windowDays |-> 365]
      [] period = "ALL" -> [len |-> 22, labelStyle |-> "point", windowDays |-> 730]

getBucketConfig(period) ==
    CASE period = "1W" -> [len |-> 7, labelStyle |-> "dow", windowDays |-> 7]
      [] period = "1M" -> [len |-> 12, labelStyle |-> "week", windowDays |-> 30]
      [] period = "3M" -> [len |-> 18, labelStyle |-> "week", windowDays |-> 90]
      [] period = "1Y" -> [len |-> 12, labelStyle |-> "month", windowDays |-> 365]
      [] period = "ALL" -> [len |-> 22, labelStyle |-> "point", windowDays |-> 730]

\* arr.slice(0, n)
slice(arr, n) == SubSeq(arr, 1, IF Len(arr) < n THEN Len(arr) ELSE n)

Days == <<"Mon", "Tue", "Wed", "Thu", "Fri", "Sat", "Sun">>
Months == <<"Jan", "Feb", "Mar", "Apr", "May", "Jun",
            "Jul", "Aug", "Sep", "Oct", "Nov", "Dec">>

\* a template label `W${i + 1}` / `P${i + 1}` is its prefix and its number
getLabels(period, len) ==
    IF period = "1W" THEN slice(Days, len)
    ELSE IF period = "1M" \/ period = "3M" THEN [i \in 1..len |-> <<"W", i>>]
    ELSE IF period = "1Y" THEN slice(Months, len)
    ELSE [i \in 1..len |-> <<"P", i>>]

KwSubscript == <<"S","U","B","S","C","R","I","P","T">>
KwService == <<"S","E","R","V","I","C","E">>
KwStream == <<"S","T","R","E","A","M">>
KwEntertain == <<"E","N","T","E","R","T","A","I","N">>
KwTravel == <<"T","R","A","V","E","L">>
KwTransport == <<"T","R","A","N","S","P","O","R","T">>
KwRecreation == <<"R","E","C","R","E","A","T","I","O","N">>

\* mutant: the Leisure keywords are tried first
mapCategory_LeisureFirst(raw) ==
    LET s == toUpperCase(IF IsNull(raw) THEN <<>> ELSE Val(raw))
    IN  IF includes(s, KwEntertain) \/ includes(s, KwTravel)
           \/ includes(s, KwTransport) \/ includes(s, KwRecreation)
        THEN "Leisure"
        ELSE IF includes(s, KwSubscript) \/ includes(s, KwService) \/ includes(s, KwStream)
        THEN "Subscriptions"
        ELSE "Essentials"

mapCategory(raw) ==
    LET s == toUpperCase(IF IsNull(raw) THEN <<>> ELSE Val(raw))
    IN  IF includes(s, KwSubscript) \/ includes(s, KwService) \/ includes(s, KwStream)
        THEN "Subscriptions"
        ELSE IF includes(s, KwEntertain) \/ includes(s, KwTravel)
                \/ includes(s, KwTransport) \/ includes(s, KwRecreation)
        THEN "Leisure"
        ELSE "Essentials"

\* the accumulator of arr.reduce((a, b) => a + b, 0) before each element and
\* after the last one
RECURSIVE sumAccumulators(_)
sumAccumulators(arr) ==
    IF arr = <<>> THEN <<Zero>>
    ELSE LET acc == sumAccumulators(SubSeq(arr, 1, Len(arr) - 1))
         IN  Append(acc, Plus(acc[Len(acc)], arr[Len(arr)]))

\* mutant: the last element is left out of the sum
sum_DropsLast(arr) == sumAccumulators(arr)[IF arr = <<>> THEN 1 ELSE Len(arr)]

\* arr.reduce((a, b) => a + b, 0)
sum(arr) == sumAccumulators(arr)[Len(arr) + 1]

\* the loop of sumRange over the first k transactions
RECURSIVE sumRangeLoop(_, _, _, _)
sumRangeLoop(transactions, start, end, k) ==
    IF k = 0 THEN [income |-> Zero, spend |-> Zero]
    ELSE LET acc == sumRangeLoop(transactions, start, end, k - 1)
             t == transactions[k]
         IN  IF t.date < start \/ t.date >= end THEN acc
             ELSE IF Ge(t.amount, Zero)
             THEN [acc EXCEPT !.income = Plus(acc.income, t.amount)]
             ELSE [acc EXCEPT !.spend = Plus(acc.spend, QNeg(t.amount))]

\* mutant: a transaction dated exactly at the end of the range is counted
sumRange_EndInclusive(transactions, start, end) ==
    sumRangeLoop(transactions, start, end + 1, Len(transactions))

sumRange(transactions, start, end) ==
    sumRangeLoop(transactions, start, end, Len(transactions))

Zeros(len) == [i \in 1..len |-> Zero]

buildZeroDashboardSnapshot(period) ==
    LET cfg == getBucketConfig(period)
        series == [total |-> Zeros(cfg.len), essentials |-> Zeros(cfg.len),
                   leisure |-> Zeros(cfg.len), subscriptions |-> Zeros(cfg.len)]
    IN  [period |-> period,
         currencyCode |-> Null,
         labels |-> getLabels(period, cfg.len),
         series |-> series,
         points |-> series.total,
         kpis |-> [currentBalance |-> Zero,
                   currentBalanceTrendPct |-> Zero,
                   monthlySpend |-> Zero,
                   monthlySpendTrendPct |-> Zero,
                   savingsRate |-> Zero,
                   savingsRateTrendPctPoints |-> Zero,
                   upcomingBills |-> Zero,
                   upcomingBillsDueInDays |-> Zero],
         recentTransactions |-> <<>>]

\* ------------------------------------------------------------ currency.ts
normalizeCurrencyCode(code) ==
    LET c == toUpperCase(trim(IF IsNull(code) THEN <<>> ELSE Val(code)))
    IN  IF Len(c) = 3 /\ \A k \in 1..3 : \E u \in 1..Len(Upper) : Upper[u] = c[k]
        THEN Some(c) ELSE Null

\* the counts map after the first k accounts, in insertion order
RECURSIVE currencyCounts(_, _)
currencyCounts(accounts, k) ==
    IF k = 0 THEN <<>>
    ELSE LET counts == currencyCounts(accounts, k - 1)
             code == normalizeCurrencyCode(accounts[k].currencyCode)
         IN  IF IsNull(code) THEN counts
             ELSE IF \E j \in 1..Len(counts) : counts[j].code = Val(code)
             THEN [j \in 1..Len(counts) |->
                      IF counts[j].code = Val(code)
                      THEN [counts[j] EXCEPT !.count = @ + 1] ELSE counts[j]]
             ELSE Append(counts, [code |-> Val(code), count |-> 1])

\* mutant: of equal counts the entry seen last wins
RECURSIVE bestCurrency_LastWins(_, _)
bestCurrency_LastWins(counts, k) ==
    IF k = 0 THEN [best |-> Null, bestCount |-> 0]
    ELSE LET b == bestCurrency_LastWins(counts, k - 1)
         IN  IF counts[k].count >= b.bestCount
             THEN [best |-> Some(counts[k].code), bestCount |-> counts[k].count]
             ELSE b

\* the scan for the best entry over the first k entries of the map
RECURSIVE bestCurrency(_, _)
bestCurrency(counts, k) ==
    IF k = 0 THEN [best |-> Null, bestCount |-> 0]
    ELSE LET b == bestCurrency(counts, k - 1)
         IN  IF counts[k].count > b.bestCount
             THEN [best |-> Some(counts[k].code), bestCount |-> counts[k].count]
             ELSE b

inferCurrencyCodeFromAccounts(accounts) ==
    LET counts == currencyCounts(accounts, Len(accounts))
    IN  bestCurrency(counts, Len(counts)).best

\* ------------------------------------- buildDashboardSnapshotFromTransactions
\* mutant: the nearest bucket boundary decides, not the floor
bucketIndex_Rounded(ts, startMs, endMs, len) ==
    LET segmentMs == Q(endMs - startMs, len)
        raw == QFloor(QAdd(QDiv(Num(ts - startMs), segmentMs), Q(1, 2)))
    IN  IF raw < 0 THEN 0 ELSE IF raw > len - 1 THEN len - 1 ELSE raw

\* the bucket index of a timestamp inside the window
bucketIndex(ts, startMs, endMs, len) ==
    LET segmentMs == Q(endMs - startMs, len)
        raw == QFloor(QDiv(Num(ts - startMs), segmentMs))
    IN  IF raw < 0 THEN 0 ELSE IF raw > len - 1 THEN len - 1 ELSE raw

\* mutant: a bucket keeps the last value added to it
AddAt_Overwrites(arr, idx, v) == [arr EXCEPT ![idx + 1] = v]

\* arr[idx] += v
AddAt(arr, idx, v) == [arr EXCEPT ![idx + 1] = Plus(@, v)]

\* the four bucket arrays after the chart loop has run over the first k transactions
RECURSIVE chartLoop(_, _, _, _, _)
chartLoop(transactions, startMs, endMs, len, k) ==
    IF k = 0
    THEN [total |-> Zeros(len), essentials |-> Zeros(len),
          leisure |-> Zeros(len), subscriptions |-> Zeros(len)]
    ELSE LET acc == chartLoop(transactions, startMs, endMs, len, k - 1)
             t == transactions[k]
             ts == t.date
             idx == bucketIndex(ts, startMs, endMs, len)
             spendValue == QNeg(t.amount)
             cat == mapCategory(t.category)
         IN  IF Ge(t.amount, Zero) THEN acc
             ELSE IF ts < startMs \/ ts >= endMs THEN acc
             ELSE IF cat = "Essentials"
             THEN [acc EXCEPT !.total = AddAt(@, idx, spendValue),
                              !.essentials = AddAt(@, idx, spendValue)]
             ELSE IF cat = "Leisure"
             THEN [acc EXCEPT !.total = AddAt(@, idx, spendValue),
                              !.leisure = AddAt(@, idx, spendValue)]
             ELSE [acc EXCEPT !.total = AddAt(@, idx, spendValue),
                              !.subscriptions = AddAt(@, idx, spendValue)]

RoundAll(arr) == [i \in 1..Len(arr) |-> MathRound(arr[i])]

\* mutant: the subscriptions buckets are left unrounded
roundSeries_SubscriptionsExact(acc) ==
    [total |-> RoundAll(acc.total), essentials |-> RoundAll(acc.essentials),
     leisure |-> RoundAll(acc.leisure), subscriptions |-> acc.subscriptions]

roundSeries(acc) ==
    [total |-> RoundAll(acc.total), essentials |-> RoundAll(acc.essentials),
     leisure |-> RoundAll(acc.leisure), subscriptions |-> RoundAll(acc.subscriptions)]

\* accounts.reduce((acc, a) => acc + (a.currentBalance ?? 0), 0)
RECURSIVE sumBalances(_, _)
sumBalances(accounts, k) ==
    IF k = 0 THEN Zero
    ELSE Plus(sumBalances(accounts, k - 1),
              IF IsNull(accounts[k].currentBalance) THEN Zero
              ELSE Val(accounts[k].currentBalance))

\* transactions.filter(t => t.date >= end - d7).reduce((acc, t) => acc + t.amount, 0)
RECURSIVE net7Sum(_, _, _)
net7Sum(transactions, from, k) ==
    IF k = 0 THEN Zero
    ELSE IF transactions[k].date >= from
    THEN Plus(net7Sum(transactions, from, k - 1), transactions[k].amount)
    ELSE net7Sum(transactions, from, k - 1)

\* mutant: rows of one date come out in reverse input order
RECURSIVE sortByDateDesc_Unstable(_)
sortByDateDesc_Unstable(txs) ==
    IF txs = <<>> THEN <<>>
    ELSE LET rest == sortByDateDesc_Unstable(SubSeq(txs, 1, Len(txs) - 1))
             t == txs[Len(txs)]
             n == Cardinality({j \in 1..Len(rest) : rest[j].date > t.date})
         IN  SubSeq(rest, 1, n) \o <<t>> \o SubSeq(rest, n + 1, Len(rest))

\* [...transactions].sort((a, b) => b.date - a.date): stable, newest first
RECURSIVE sortByDateDesc(_)
sortByDateDesc(txs) ==
    IF txs = <<>> THEN <<>>
    ELSE LET rest == sortByDateDesc(SubSeq(txs, 1, Len(txs) - 1))
             t == txs[Len(txs)]
             n == Cardinality({j \in 1..Len(rest) : rest[j].date >= t.date})
         IN  SubSeq(rest, 1, n) \o <<t>> \o SubSeq(rest, n + 1, Len(rest))

\* Date.prototype.toISOString: the text form of a timestamp
toISOString(ms) == <<"ISO-8601", ms>>

toDemoTransaction(t) ==
    [id |-> t.id,
     dateISO |-> toISOString(t.date),
     name |-> t.name,
     meta |-> IF ~IsNull(t.meta) THEN Val(t.meta)
              ELSE IF ~IsNull(t.category) THEN Val(t.category)
              ELSE <<"B","a","n","k">>,
     amount |-> t.amount,
     category |-> IF Lt(t.amount, Zero) THEN Some(mapCategory(t.category)) ELSE Null]

\* The arrays of one call live in cells; an array value is the address of its
\* cell, and the caller's transactions array is in cell 1.
\* mutant: no copy is made, the new name is the caller's array
spreadCopy_Alias(cells, a) == [cells |-> cells, addr |-> a]

\* [...arr]: a new cell holding the elements of arr
spreadCopy(cells, a) == [cells |-> Append(cells, cells[a]), addr |-> Len(cells) + 1]

\* arr.sort((a, b) => b.date - a.date) sorts the cell itself
sortInPlace(cells, a) == [cells EXCEPT ![a] = sortByDateDesc(@)]

\* the cells after [...args.transactions].sort(...), and the address sorted
cellsAfterSort(transactions) ==
    LET c == spreadCopy(<<transactions>>, 1)
    IN  [cells |-> sortInPlace(c.cells, c.addr), addr |-> c.addr]

recentOf(transactions) ==
    LET r == cellsAfterSort(transactions)
        top == slice(r.cells[r.addr], 6)
    IN  slice([i \in 1..Len(top) |-> toDemoTransaction(top[i])], 4)

\* the caller's transactions array when the builder returns
transactionsAfterBuild(transactions) == cellsAfterSort(transactions).cells[1]

\* mutant: the ratio is returned unclamped
savingsRateOf_Unclamped(r) ==
    IF r.income = Zero THEN Zero
    ELSE Over(Minus(r.income, r.spend), r.income)

savingsRateOf(r) ==
    IF r.income = Zero THEN Zero
    ELSE clamp(Over(Minus(r.income, r.spend), r.income), Zero, Lit(95, 100))

\* mutant: no spend in the prior window counts as a full rise
spendTrendOf_RiseFromNothing(this30, prev30) ==
    IF prev30.spend = Zero THEN Num(1)
    ELSE Over(Minus(this30.spend, prev30.spend), prev30.spend)

spendTrendOf(this30, prev30) ==
    IF prev30.spend = Zero THEN Zero
    ELSE Over(Minus(this30.spend, prev30.spend), prev30.spend)

balanceTrendOf(currentBalance, net7) ==
    LET priorBalance == Minus(currentBalance, net7)
    IN  IF priorBalance = Zero THEN Zero
        ELSE Over(Minus(currentBalance, priorBalance), QAbs(priorBalance))

\* mutant: the explicit now is ignored, the wall clock is read
resolveNow_ClockOnly(argNow, clock) == clock

\* args.now ?? new Date(): the explicit now, else the wall clock at the call
resolveNow(argNow, clock) == IF IsNull(argNow) THEN clock ELSE Val(argNow)

buildDashboardSnapshotFromTransactions(args) ==
    LET now == resolveNow(args.now, args.clock)
        cfg == getBucketConfig(args.period)
        labels == getLabels(args.period, cfg.len)
        endMs == now
        startMs == endMs - cfg.windowDays * DayMs
        series == roundSeries(chartLoop(args.transactions, startMs, endMs, cfg.len,
                                        Len(args.transactions)))
        points == series.total
        currencyCode == inferCurrencyCodeFromAccounts(args.accounts)
        currentBalance == sumBalances(args.accounts, Len(args.accounts))
        d30 == 30 * DayMs
        end == now
        start30 == end - d30
        start60 == end - 2 * d30
        this30 == sumRange(args.transactions, start30, end)
        prev30 == sumRange(args.transactions, start60, start30)
        monthlySpend == this30.spend
        monthlySpendTrendPct == spendTrendOf(this30, prev30)
        savingsRate == savingsRateOf(this30)
        prevSavingsRate == savingsRateOf(prev30)
        savingsRateTrendPctPoints == Times(Minus(savingsRate, prevSavingsRate), Num(100))
        d7 == 7 * DayMs
        net7 == net7Sum(args.transactions, end - d7, Len(args.transactions))
        currentBalanceTrendPct == balanceTrendOf(currentBalance, net7)
        upcomingBills == Over(sum(series.subscriptions), Num(2))
        upcomingBillsDueInDays == Num(7)
    IN  [period |-> args.period,
         currencyCode |-> currencyCode,
         labels |-> labels,
         series |-> series,
         points |-> points,
         kpis |-> [currentBalance |-> currentBalance,
                   currentBalanceTrendPct |->
                       clamp(currentBalanceTrendPct, Lit(-1, 2), Lit(1, 2)),
                   monthlySpend |-> monthlySpend,
                   monthlySpendTrendPct |->
                       clamp(monthlySpendTrendPct, Lit(-9, 10), Lit(9, 10)),
                   savingsRate |-> savingsRate,
                   savingsRateTrendPctPoints |->
                       clamp(savingsRateTrendPctPoints, Num(-50), Num(50)),
                   upcomingBills |-> upcomingBills,
                   upcomingBillsDueInDays |-> upcomingBillsDueInDays],
         recentTransactions |-> recentOf(args.transactions)]

\* --------------------------------------------- finance.ts: spending summary
Uncategorized == <<"U","n","c","a","t","e","g","o","r","i","z","e","d">>

\* (t.category ?? "Uncategorized").trim() || "Uncategorized"
categoryKey(category) ==
    LET c == trim(IF IsNull(category) THEN Uncategorized ELSE Val(category))
    IN  IF c = <<>> THEN Uncategorized ELSE c

\* spendByCategory.set(category, (spendByCategory.get(category) ?? 0) + spendValue)
mapAdd(m, key, v) ==
    IF \E j \in 1..Len(m) : m[j].category = key
    THEN [j \in 1..Len(m) |->
             IF m[j].category = key THEN [m[j] EXCEPT !.amount = Plus(@, v)] ELSE m[j]]
    ELSE Append(m, [category |-> key, amount |-> Plus(Zero, v)])

\* mutant: a zero amount is treated as an expense
summaryStep_ZeroIsExpense(acc, t) ==
    IF Gt(t.amount, Zero)
    THEN [acc EXCEPT !.income = Plus(@, t.amount)]
    ELSE [acc EXCEPT !.spend = Plus(@, QNeg(t.amount)),
                     !.spendByCategory =
                         mapAdd(@, categoryKey(t.category), QNeg(t.amount))]

\* one pass of the loop body of buildSpendingSummary
summaryStep(acc, t) ==
    IF Ge(t.amount, Zero)
    THEN [acc EXCEPT !.income = Plus(@, t.amount)]
    ELSE [acc EXCEPT !.spend = Plus(@, QNeg(t.amount)),
                     !.spendByCategory =
                         mapAdd(@, categoryKey(t.category), QNeg(t.amount))]

\* income, spend and the category map after the first k transactions
RECURSIVE summaryLoop(_, _)
summaryLoop(transactions, k) ==
    IF k = 0 THEN [income |-> Zero, spend |-> Zero, spendByCategory |-> <<>>]
    ELSE summaryStep(summaryLoop(transactions, k - 1), transactions[k])

\* mutant: an entry goes before the entries of equal amount
amountRank_BeforeEqual(sorted, x) ==
    Cardinality({j \in 1..Len(sorted) : Gt(sorted[j].amount, x.amount)})

\* where the comparator (a, b) => b[1] - a[1] puts x among the entries before it:
\* after every entry whose amount is not smaller
amountRank(sorted, x) ==
    Cardinality({j \in 1..Len(sorted) : Ge(sorted[j].amount, x.amount)})

\* entries.sort((a, b) => b[1] - a[1]): stable, largest amount first
RECURSIVE sortByAmountDesc(_)
sortByAmountDesc(entries) ==
    IF entries = <<>> THEN <<>>
    ELSE LET rest == sortByAmountDesc(SubSeq(entries, 1, Len(entries) - 1))
             x == entries[Len(entries)]
             n == amountRank(rest, x)
         IN  SubSeq(rest, 1, n) \o <<x>> \o SubSeq(rest, n + 1, Len(rest))

buildSpendingSummary(transactions) ==
    LET acc == summaryLoop(transactions, Len(transactions))
    IN  [income |-> acc.income,
         spend |-> acc.spend,
         net |-> Minus(acc.income, acc.spend),
         topCategories |-> slice(sortByAmountDesc(acc.spendByCategory), 8)]

\* ------------------------------------------------------------ evaluations.ts
\* Math.round(n * 100)
pct(n) == MathRound(Times(n, Num(100)))

some(arr) == \E k \in 1..Len(arr) : arr[k] # Zero

\* mutant: the KPI signal is left out of the test
noDataOf_IgnoresKpis(s) ==
    LET hasAnyTx == Len(s.recentTransactions) > 0
        hasAnySeries == some(s.points) \/ some(s.series.total)
    IN  ~hasAnyTx /\ ~hasAnySeries

noDataOf(s) ==
    LET hasAnyTx == Len(s.recentTransactions) > 0
        hasAnySeries == some(s.points) \/ some(s.series.total)
        hasAnyKpiSignal ==
            \/ s.kpis.currentBalance # Zero
            \/ s.kpis.monthlySpend # Zero
            \/ s.kpis.savingsRate # Zero
    IN  ~hasAnyTx /\ ~hasAnySeries /\ ~hasAnyKpiSignal

\* mutant: the share is not clamped
top1ShareOf_Unclamped(spendingSummary) ==
    IF ~IsNull(spendingSummary)
       /\ Gt(Val(spendingSummary).spend, Zero)
       /\ Len(Val(spendingSummary).topCategories) > 0
    THEN Some(Over(Val(spendingSummary).topCategories[1].amount,
                   Val(spendingSummary).spend))
    ELSE Null

top1ShareOf(spendingSummary) ==
    IF ~IsNull(spendingSummary)
       /\ Gt(Val(spendingSummary).spend, Zero)
       /\ Len(Val(spendingSummary).topCategories) > 0
    THEN Some(clamp(Over(Val(spendingSummary).topCategories[1].amount,
                         Val(spendingSummary).spend), Zero, Num(1)))
    ELSE Null

\* mutant: the lower clamp is -12, so a low share earns points
concentrationPenalty_Signed(top1Share) ==
    IF ~IsNull(top1Share)
    THEN clamp(Times(Minus(Val(top1Share), Lit(35, 100)), Num(40)), Num(-12), Num(12))
    ELSE Zero

concentrationPenalty(top1Share) ==
    IF ~IsNull(top1Share)
    THEN clamp(Times(Minus(Val(top1Share), Lit(35, 100)), Num(40)), Zero, Num(12))
    ELSE Zero

\* mutant: the savings term is capped at 30 instead of 40
scoreOf_SavingsCap30(savingsRate, spendTrend, balanceTrend, top1Share) ==
    LET s0 == Num(50)
        s1 == Plus(s0, clamp(Times(Minus(savingsRate, Lit(2, 10)), Num(120)),
                             Num(-30), Num(30)))
        s2 == Plus(s1, clamp(Times(QNeg(spendTrend), Num(25)), Num(-15), Num(15)))
        s3 == Plus(s2, clamp(Times(balanceTrend, Num(20)), Num(-10), Num(10)))
        s4 == IF ~IsNull(top1Share)
              THEN Minus(s3, clamp(Times(Minus(Val(top1Share), Lit(35, 100)), Num(40)),
                                   Zero, Num(12)))
              ELSE s3
    IN  MathRound(clamp(s4, Zero, Num(100)))

scoreOf(savingsRate, spendTrend, balanceTrend, top1Share) ==
    LET s0 == Num(50)
        s1 == Plus(s0, clamp(Times(Minus(savingsRate, Lit(2, 10)), Num(120)),
                             Num(-30), Num(40)))
        s2 == Plus(s1, clamp(Times(QNeg(spendTrend), Num(25)), Num(-15), Num(15)))
        s3 == Plus(s2, clamp(Times(balanceTrend, Num(20)), Num(-10), Num(10)))
        s4 == IF ~IsNull(top1Share) THEN Minus(s3, concentrationPenalty(top1Share)) ELSE s3
    IN  MathRound(clamp(s4, Zero, Num(100)))

\* mutant: the test for spend > 0 is missing
incomeInsight_NoSpendTest(savingsRate, spendingSummary) ==
    IF savingsRate = Zero /\ ~IsNull(spendingSummary)
       /\ Val(spendingSummary).income = Zero
    THEN <<[severity |-> "warn", title |-> "Income not detected", detail |-> <<>>]>>
    ELSE <<>>

incomeInsight(savingsRate, spendingSummary) ==
    IF savingsRate = Zero /\ ~IsNull(spendingSummary)
       /\ Val(spendingSummary).income = Zero /\ Gt(Val(spendingSummary).spend, Zero)
    THEN <<[severity |-> "warn", title |-> "Income not detected", detail |-> <<>>]>>
    ELSE <<>>

\* mutant: the thresholds are inclusive
trendInsight_Inclusive(spendTrend) ==
    IF Ge(spendTrend, Lit(15, 100))
    THEN <<[severity |-> "risk", title |-> "Spending is trending up",
            detail |-> <<pct(spendTrend)>>]>>
    ELSE IF Le(spendTrend, Lit(-15, 100))
    THEN <<[severity |-> "info", title |-> "Spending is trending down",
            detail |-> <<pct(QNeg(spendTrend))>>]>>
    ELSE <<>>

trendInsight(spendTrend) ==
    IF Gt(spendTrend, Lit(15, 100))
    THEN <<[severity |-> "risk", title |-> "Spending is trending up",
            detail |-> <<pct(spendTrend)>>]>>
    ELSE IF Lt(spendTrend, Lit(-15, 100))
    THEN <<[severity |-> "info", title |-> "Spending is trending down",
            detail |-> <<pct(QNeg(spendTrend))>>]>>
    ELSE <<>>

billsInsight(kpis) ==
    IF Gt(kpis.upcomingBills, Zero)
    THEN <<[severity |-> "info", title |-> "Upcoming bills estimate",
            detail |-> <<MathRound(kpis.upcomingBills), kpis.upcomingBillsDueInDays>>]>>
    ELSE <<>>

concentrationInsight(top1Share, spendingSummary) ==
    IF ~IsNull(top1Share) /\ Gt(Val(top1Share), Lit(1, 2))
    THEN <<[severity |-> "warn", title |-> "Spending is concentrated",
            detail |-> <<Val(spendingSummary).topCategories[1].category,
                         pct(Val(top1Share))>>]>>
    ELSE <<>>

noDataEvaluation ==
    [status |-> "no_data",
     score |-> Null,
     summary |-> <<"No finance data yet">>,
     insights |-> <<[severity |-> "info", title |-> "Connect your accounts",
                     detail |-> <<>>]>>,
     nextActions |-> <<[label |-> "Connect a card and bank", route |-> "/banking"],
                       [label |-> "View dashboard", route |-> "/dashboard"]>>,
     metrics |-> [monthlySpend |-> Zero,
                  monthlySpendTrendPct |-> Zero,
                  currentBalance |-> Zero,
                  currentBalanceTrendPct |-> Zero,
                  savingsRate |-> Zero,
                  upcomingBillsEstimate |-> Zero,
                  categoryConcentrationTop1Pct |-> Null]]

buildFinanceEvaluation(args) ==
    LET s == args.snapshot
        monthlySpend == s.kpis.monthlySpend
        savingsRate == s.kpis.savingsRate
        spendTrend == s.kpis.monthlySpendTrendPct
        balanceTrend == s.kpis.currentBalanceTrendPct
        top1Share == top1ShareOf(args.spendingSummary)
        score == scoreOf(savingsRate, spendTrend, balanceTrend, top1Share)
        insights == incomeInsight(savingsRate, args.spendingSummary)
                    \o trendInsight(spendTrend)
                    \o billsInsight(s.kpis)
                    \o concentrationInsight(top1Share, args.spendingSummary)
        summaryParts ==
            <<<<"Health score", score>>,
              <<"Monthly spend", MathRound(monthlySpend)>>,
              <<"Savings rate", pct(savingsRate)>>>>
            \o (IF ~IsNull(top1Share)
                THEN <<<<"Top category share", pct(Val(top1Share))>>>> ELSE <<>>)
    IN  IF noDataOf(s) THEN noDataEvaluation
        ELSE [status |-> "ok",
              score |-> Some(score),
              summary |-> summaryParts,
              insights |-> insights,
              nextActions |-> <<[label |-> "View dashboard", route |-> "/dashboard"],
                                [label |-> "Manage connections", route |-> "/banking"]>>,
              metrics |-> [monthlySpend |-> monthlySpend,
                           monthlySpendTrendPct |-> spendTrend,
                           currentBalance |-> s.kpis.currentBalance,
                           currentBalanceTrendPct |-> balanceTrend,
                           savingsRate |-> savingsRate,
                           upcomingBillsEstimate |-> s.kpis.upcomingBills,
                           categoryConcentrationTop1Pct |-> top1Share]]

\* ------------------------------------------------------------------ inputs
\* "now", in hours
NowMs == 20000
Str_Groceries == <<"G","r","o","c","e","r","i","e","s">>
Str_Travel == <<"T","r","a","v","e","l">>
Str_Streaming == <<"S","t","r","e","a","m","i","n","g">>
Str_subscription == <<"s","u","b","s","c","r","i","p","t","i","o","n">>
Str_Rent == <<"R","e","n","t">>

Tx(id, date, amount, category) ==
    [id |-> id, date |-> date, name |-> id, meta |-> Null,
     amount |-> amount, category |-> category]

\* the stored transaction rows a request can load; amounts are the numbers the
\* database holds for the decimal amounts
TxPool ==
    <<Tx("t1", NowMs - 2 * DayMs, Lit(-50, 100), Some(Str_Groceries)),
      Tx("t2", NowMs - 2 * DayMs, Lit(-150, 100), Some(Str_Travel)),
      Tx("t3", NowMs - 2 * DayMs, Lit(-215, 100), Some(Str_Streaming)),
      Tx("t4", NowMs - 2 * DayMs, Lit(-230, 100), Some(Str_subscription)),
      Tx("t5", NowMs - 5 * DayMs, Lit(2000, 100), Null),
      Tx("t6", NowMs - 40 * DayMs, Lit(-100, 100), Some(Str_Rent)),
      Tx("t7", NowMs - 45 * DayMs, Lit(1600, 100), Null)>>

AccountUsd ==
    [currentBalance |-> Some(Lit(4000, 100)), availableBalance |-> Null,
     currencyCode |-> Some(<<"u","s","d">>)]
AccountEur ==
    [currentBalance |-> Null, availableBalance |-> Null,
     currencyCode |-> Some(<<" ","E","U","R"," ">>)]

\* the account rows a request can load
AccountLists == {<<>>, <<AccountUsd>>, <<AccountEur, AccountUsd>>}

\* the sequences of at most n distinct indices of 1..m
RECURSIVE DistinctSeqs(_, _)
DistinctSeqs(m, n) ==
    IF n = 0 THEN {<<>>}
    ELSE LET shorter == DistinctSeqs(m, n - 1)
         IN  shorter \cup
             {Append(x[1], x[2]) :
                 x \in {y \in shorter \X (1..m) :
                           /\ Len(y[1]) = n - 1
                           /\ \A k \in 1..Len(y[1]) : y[1][k] # y[2]}}

Pick(pool, idx) == [k \in 1..Len(idx) |-> pool[idx[k]]]

\* the loaders read the rows newest first (orderBy date desc), rows of one date in
\* any order; the builder itself takes any list, so the reverse order is drawn too
IsNewestFirst(txs) == \A i \in 1..(Len(txs) - 1) : txs[i].date >= txs[i + 1].date
IsOldestFirst(txs) == \A i \in 1..(Len(txs) - 1) : txs[i].date <= txs[i + 1].date

TransactionLists ==
    {txs \in {Pick(TxPool, q) : q \in DistinctSeqs(Len(TxPool), MaxTx)} :
        IsNewestFirst(txs) \/ IsOldestFirst(txs)}

\* --- inputs of summarize
\* most distinct one-letter categories in a category sweep
MaxCategories == 9

Str_FoodL == <<" ","F","o","o","d">>
Str_FoodR == <<"F","o","o","d"," ">>
Str_Blank == <<" "," ">>
Str_Salary == <<"S","a","l","a","r","y">>
Str_Refund == <<"R","e","f","u","n","d">>

SummaryPool ==
    <<Tx("s1", NowMs - 1 * DayMs, Num(-2), Some(Str_FoodL)),
      Tx("s2", NowMs - 2 * DayMs, Num(-1), Some(Str_FoodR)),
      Tx("s3", NowMs - 3 * DayMs, Num(-3), Null),
      Tx("s4", NowMs - 4 * DayMs, Num(-3), Some(Str_Blank)),
      Tx("s5", NowMs - 5 * DayMs, Num(10), Some(Str_Salary)),
      Tx("s6", NowMs - 6 * DayMs, Zero, Some(Str_Refund)),
      Tx("s7", NowMs - 7 * DayMs, Num(-3), Some(Str_Travel))>>

\* one expense of 1 or 2 units in each of n one-letter categories
SweepLists(n) ==
    {[i \in 1..n |-> Tx(Upper[i], NowMs - i * DayMs, Num(-f[i]), Some(<<Upper[i]>>))] :
        f \in [1..n -> {1, 2}]}

SummaryLists ==
    {Pick(SummaryPool, q) : q \in DistinctSeqs(Len(SummaryPool), MaxTx)}
    \cup SweepLists(MaxCategories)

\* --- inputs of evaluate
Snapshot1W(kpis, recent, points, total) ==
    [period |-> "1W",
     currencyCode |-> Null,
     labels |-> getLabels("1W", 7),
     series |-> [total |-> total, essentials |-> total,
                 leisure |-> Zeros(7), subscriptions |-> Zeros(7)],
     points |-> points,
     kpis |-> kpis,
     recentTransactions |-> recent]

OneRecent ==
    <<[id |-> "t1", dateISO |-> toISOString(NowMs - 2 * DayMs), name |-> "t1", meta |-> Str_Groceries,
       amount |-> Num(-9), category |-> Some("Essentials")]>>

Spike == [i \in 1..7 |-> IF i = 6 THEN Num(9) ELSE Zero]

SuppliedKpis ==
    {[currentBalance |-> cb,
      currentBalanceTrendPct |-> bt,
      monthlySpend |-> ms,
      monthlySpendTrendPct |-> tr,
      savingsRate |-> sr,
      savingsRateTrendPctPoints |-> Zero,
      upcomingBills |-> ub,
      upcomingBillsDueInDays |-> Num(7)] :
        cb \in {Zero, Num(40)},
        bt \in {Lit(-1, 2), Zero, Lit(1, 2)},
        ms \in {Zero, Num(9)},
        tr \in {Lit(-9, 10), Lit(-2, 10), Lit(-15, 100), Zero,
                Lit(15, 100), Lit(2, 10), Lit(9, 10)},
        sr \in {Zero, Lit(2, 10), Lit(1, 2), Lit(95, 100)},
        ub \in {Zero, Lit(45, 10)}}

SuppliedSnapshots ==
    {Snapshot1W(k, r, c[1], c[2]) :
        k \in SuppliedKpis,
        r \in {<<>>, OneRecent},
        c \in {<<Zeros(7), Zeros(7)>>, <<Spike, Spike>>, <<Zeros(7), Spike>>}}

Summary(income, spend, top) ==
    [timeframe |-> "PAST_30_DAYS", income |-> income, spend |-> spend,
     net |-> Minus(income, spend), topCategories |-> top]

Entry(category, amount) == [category |-> category, amount |-> amount]

SuppliedSummaries ==
    {Summary(Zero, Zero, <<>>),
     Summary(Zero, Num(10), <<Entry(Str_Groceries, Num(10))>>),
     Summary(Zero, Num(10), <<>>),
     Summary(Num(30), Num(10), <<Entry(Str_Groceries, Num(3)), Entry(Str_Travel, Num(3)),
                                 Entry(Str_Rent, Num(2)), Entry(Str_Streaming, Num(2))>>),
     Summary(Num(30), Num(10), <<Entry(Str_Groceries, Lit(45, 10)),
                                 Entry(Str_Travel, Lit(55, 10))>>),
     Summary(Num(5), Num(10), <<Entry(Str_Rent, Num(20))>>)}

\* ------------------------------------------------------------ state machine
VARIABLES
    period,            \* the requested period
    accounts,          \* the caller's account rows
    transactions,      \* the caller's transaction rows
    now,               \* the explicit "now" of the request, Null when none is passed
    clock,             \* the wall clock
    snapshot,          \* Null, or the snapshot returned by build / passed to evaluate
    emptySnapshot,     \* Null, or the snapshot returned by buildEmpty
    again,             \* Null, or the period and the result of the latest repeated build
    spendingSummary,   \* Null, or the spending summary returned by summarize /
                       \* passed to evaluate
    evaluation,        \* Null, or what evaluate returned for snapshot and spendingSummary
    plainEvaluation,   \* Null, or what evaluate returned for snapshot alone
    chat,              \* the chat request being served
    memory,            \* the ChatSession and ChatMessage rows
    plaid,             \* a bank connection, its stored rows and the sync serving it
    stripe             \* a user's Stripe customer link and the requests serving them

\* the stored rows the routes work on
stores == <<memory, plaid, stripe>>

vars == <<period, accounts, transactions, now, clock, snapshot, emptySnapshot, again,
          spendingSummary, evaluation, plainEvaluation, chat, stores>>
inputs == <<period, accounts, transactions, now>>

\* no chat request
NoChat == [pc |-> "none"]

\* no stored rows in play
NoMemory == [kind |-> "none"]
NoPlaid == [kind |-> "none"]
NoStripe == [kind |-> "none"]
NoStores == memory = NoMemory /\ plaid = NoPlaid /\ stripe = NoStripe

\* --- the snapshot builder on the rows of a request
Init ==
    /\ period \in Periods
    /\ accounts \in AccountLists
    /\ transactions \in TransactionLists
    /\ now = Some(NowMs)
    /\ clock = NowMs
    /\ snapshot = Null
    /\ emptySnapshot = Null
    /\ again = Null
    /\ spendingSummary = Null
    /\ evaluation = Null
    /\ plainEvaluation = Null
    /\ chat = NoChat
    /\ NoStores

\* build(period, accounts, transactions, now): the result, and the caller's
\* transactions array as the call leaves it (accounts are only read)
Build ==
    /\ snapshot = Null
    /\ snapshot' = Some(buildDashboardSnapshotFromTransactions(
                       [period |-> period, accounts |-> accounts,
                        transactions |-> transactions, now |-> now, clock |-> clock]))
    /\ transactions' = transactionsAfterBuild(transactions)
    /\ UNCHANGED <<period, accounts, now, clock, emptySnapshot, again, spendingSummary,
                   evaluation, plainEvaluation, chat, stores>>

\* buildEmpty(period)
BuildEmpty ==
    /\ emptySnapshot = Null
    /\ emptySnapshot' = Some(buildZeroDashboardSnapshot(period))
    /\ UNCHANGED <<inputs, clock, snapshot, again, spendingSummary, evaluation,
                   plainEvaluation, chat, stores>>

Next == Build \/ BuildEmpty

Spec == Init /\ [][Next]_vars

\* --- summarize on a transaction list
InitSum ==
    /\ period = "1M"
    /\ accounts = <<>>
    /\ transactions \in SummaryLists
    /\ now = Some(NowMs)
    /\ clock = NowMs
    /\ snapshot = Null
    /\ emptySnapshot = Null
    /\ again = Null
    /\ spendingSummary = Null
    /\ evaluation = Null
    /\ plainEvaluation = Null
    /\ chat = NoChat
    /\ NoStores

\* summarize(transactions): the list is only read
Summarize ==
    /\ spendingSummary = Null
    /\ spendingSummary' =
           Some([timeframe |-> "PAST_30_DAYS"] @@ buildSpendingSummary(transactions))
    /\ UNCHANGED <<inputs, clock, snapshot, emptySnapshot, again, evaluation,
                   plainEvaluation, chat, stores>>

NextSum == Summarize

SpecSum == InitSum /\ [][NextSum]_vars

\* --- evaluate on a supplied snapshot and an optional spending summary
InitEval ==
    /\ period = "1W"
    /\ accounts = <<>>
    /\ transactions = <<>>
    /\ now = Some(NowMs)
    /\ clock = NowMs
    /\ snapshot \in {Some(s) : s \in SuppliedSnapshots}
    /\ emptySnapshot = Null
    /\ again = Null
    /\ spendingSummary \in {Null} \cup {Some(m) : m \in SuppliedSummaries}
    /\ evaluation = Null
    /\ plainEvaluation = Null
    /\ chat = NoChat
    /\ NoStores

\* evaluate(snapshot, spendingSummary): both are only read
Evaluate ==
    /\ snapshot # Null
    /\ evaluation = Null
    /\ evaluation' = Some(buildFinanceEvaluation(
                         [snapshot |-> Val(snapshot), spendingSummary |-> spendingSummary]))
    /\ UNCHANGED <<inputs, clock, snapshot, emptySnapshot, again, spendingSummary,
                   plainEvaluation, chat, stores>>

\* evaluate(snapshot)
EvaluatePlain ==
    /\ snapshot # Null
    /\ plainEvaluation = Null
    /\ plainEvaluation' = Some(buildFinanceEvaluation(
                              [snapshot |-> Val(snapshot), spendingSummary |-> Null]))
    /\ UNCHANGED <<inputs, clock, snapshot, emptySnapshot, again, spendingSummary,
                   evaluation, chat, stores>>

NextEval == Evaluate \/ EvaluatePlain

SpecEval == InitEval /\ [][NextEval]_vars

\* --- build called again on the same rows, the clock moving between calls
\* the pool rows in pool order
IsIncreasing(q) == \A i \in 1..(Len(q) - 1) : q[i] < q[i + 1]

\* rows of the pool and a subscription charge older than the shortest chart window
TwicePool ==
    <<TxPool[3], TxPool[5],
      Tx("t8", NowMs - 20 * DayMs, Lit(-999, 100), Some(Str_Streaming)),
      TxPool[6], TxPool[7]>>

TwiceLists ==
    {Pick(TwicePool, q) :
        q \in {r \in DistinctSeqs(Len(TwicePool), MaxTx) : IsIncreasing(r)}}

\* the latest wall-clock reading drawn
LastClock == NowMs + DayMs

InitTwice ==
    /\ period \in Periods
    /\ accounts \in {<<>>, <<AccountEur, AccountUsd>>}
    /\ transactions \in TwiceLists
    /\ now \in {Null, Some(NowMs)}
    /\ clock = NowMs
    /\ snapshot = Null
    /\ emptySnapshot = Null
    /\ again = Null
    /\ spendingSummary = Null
    /\ evaluation = Null
    /\ plainEvaluation = Null
    /\ chat = NoChat
    /\ NoStores

\* a day passes after the first call
Tick ==
    /\ snapshot # Null
    /\ clock < LastClock
    /\ clock' = clock + DayMs
    /\ UNCHANGED <<inputs, snapshot, emptySnapshot, again, spendingSummary, evaluation,
                   plainEvaluation, chat, stores>>

\* build(p, accounts, transactions, now), a later call on the same rows
BuildAgain ==
    /\ snapshot # Null
    /\ \E p \in Periods :
          again' = Some([period |-> p, clock |-> clock,
                         snapshot |-> buildDashboardSnapshotFromTransactions(
                             [period |-> p, accounts |-> accounts,
                              transactions |-> transactions, now |-> now,
                              clock |-> clock])])
    /\ transactions' = transactionsAfterBuild(transactions)
    /\ UNCHANGED <<period, accounts, now, clock, snapshot, emptySnapshot, spendingSummary,
                   evaluation, plainEvaluation, chat, stores>>

NextTwice == Build \/ Tick \/ BuildAgain

SpecTwice == InitTwice /\ [][NextTwice]_vars

\* --- one request: build, summarize and evaluate on the caller's rows
\* rows of four different dates, in any order the caller holds them
PipelinePool == <<TxPool[1], TxPool[5], TxPool[6], TxPool[7]>>

PipelineLists == {Pick(PipelinePool, q) : q \in DistinctSeqs(Len(PipelinePool), MaxTx - 1)}

InitPipeline ==
    /\ period \in {"1W", "ALL"}
    /\ accounts \in {<<>>, <<AccountEur, AccountUsd>>}
    /\ transactions \in PipelineLists
    /\ now = Some(NowMs)
    /\ clock = NowMs
    /\ snapshot = Null
    /\ emptySnapshot = Null
    /\ again = Null
    /\ spendingSummary = Null
    /\ evaluation = Null
    /\ plainEvaluation = Null
    /\ chat = NoChat
    /\ NoStores

NextPipeline == Build \/ Summarize \/ Evaluate \/ EvaluatePlain

SpecPipeline == InitPipeline /\ [][NextPipeline]_vars

\* --- the chat memory: sessions and their messages
Users == {"user_1", "user_2"}

\* the most ChatSession rows and ChatMessage rows the store holds
MaxSessions == 3
MaxRows == 3

\* a session id no ChatSession row carries
UnknownSession == 0

\* session ids are 1, 2, ... in order of creation; sessions[id] is the row's userId
EmptyMemory ==
    [kind |-> "rows", users |-> {}, sessions |-> <<>>, messages |-> <<>>, last |-> Null]

\* prisma.chatSession.findFirst({ where: { id, userId } })
findSession(m, sessionId, userId) ==
    sessionId \in 1..Len(m.sessions) /\ m.sessions[sessionId] = userId

\* getOrCreateChatSession({ userId, sessionId }): the rows it leaves and the
\* sessionId it returns
getOrCreateChatSession(m, userId, sessionId) ==
    LET upserted == [m EXCEPT !.users = @ \cup {userId}]
    IN  IF ~IsNull(sessionId) /\ findSession(m, Val(sessionId), userId)
        THEN [memory |-> upserted, sessionId |-> Val(sessionId)]
        ELSE [memory |-> [upserted EXCEPT !.sessions = Append(@, userId)],
              sessionId |-> Len(m.sessions) + 1]

\* Math.min(Math.max(limit ?? 40, 1), 200)
takeOf(limit) ==
    LET n == IF IsNull(limit) THEN 40 ELSE Val(limit)
        lo == IF n < 1 THEN 1 ELSE n
    IN  IF lo > 200 THEN 200 ELSE lo

\* arr.slice(0, n)
sliceFirst(arr, n) == IF Len(arr) <= n THEN arr ELSE SubSeq(arr, 1, n)

\* mutant: the messages of the session are returned whoever asks
getChatHistory_AnyCaller(m, userId, sessionId, limit) ==
    LET rows == sliceFirst(SelectSeq(m.messages, LAMBDA r : r.sessionId = sessionId),
                           takeOf(limit))
        kept == SelectSeq(rows, LAMBDA r : r.role = "user" \/ r.role = "assistant")
    IN  [k \in 1..Len(kept) |-> [role |-> kept[k].role, content |-> kept[k].content]]

\* getChatHistory({ userId, sessionId, limit }): the stored rows of the session,
\* oldest first
getChatHistory(m, userId, sessionId, limit) ==
    IF ~findSession(m, sessionId, userId) THEN <<>>
    ELSE LET rows == sliceFirst(SelectSeq(m.messages,
                                          LAMBDA r : r.sessionId = sessionId),
                                takeOf(limit))
             kept == SelectSeq(rows, LAMBDA r : r.role = "user" \/ r.role = "assistant")
         IN  [k \in 1..Len(kept) |-> [role |-> kept[k].role, content |-> kept[k].content]]

\* appendChatMessages({ userId, sessionId, messages }): the rows it leaves; by is
\* the caller, kept beside each row for the record only
appendChatMessages(m, userId, sessionId, messages) ==
    IF ~findSession(m, sessionId, userId) THEN m
    ELSE IF Len(messages) = 0 THEN m
    ELSE [m EXCEPT !.messages =
              @ \o [k \in 1..Len(messages) |->
                       [sessionId |-> sessionId, role |-> messages[k].role,
                        content |-> messages[k].content, by |-> userId]]]

\* --- the chat route: one request, a step at each wait of the handler
FinanceWords ==
    {<<"s","p","e","n","d">>,
     <<"s","p","e","n","t">>,
     <<"t","r","a","n","s","a","c","t","i","o","n">>,
     <<"b","a","l","a","n","c","e">>,
     <<"i","n","c","o","m","e">>,
     <<"s","a","v","i","n","g","s">>,
     <<"b","i","l","l">>,
     <<"s","u","b","s","c","r","i","p","t","i","o","n">>,
     <<"b","u","d","g","e","t">>}

looksLikeFinanceQuestion(text) ==
    LET t == toLowerCase(text)
    IN  \E w \in FinanceWords : includes(t, w)

UserMsg(content) == [role |-> "user", content |-> content]
AssistantMsg(content) == [role |-> "assistant", content |-> content]

Text_Hi == <<"H","i">>
Text_Spend == <<"W","h","a","t"," ","d","i","d"," ","I"," ","s","p","e","n","d","?">>
Text_Bills == <<"M","y"," ","B","I","L","L","S">>
Text_Balance == <<"b","a","l","a","n","c","e","?">>
Text_Sure == <<"S","u","r","e",".">>

\* [...messages].reverse().find((m) => m.role === "user")?.content ?? ""
lastUserContent(messages) ==
    LET users == {k \in 1..Len(messages) : messages[k].role = "user"}
    IN  IF users = {} THEN <<>>
        ELSE messages[CHOOSE k \in users : \A j \in users : j <= k].content

\* arr.slice(-n)
sliceLast(arr, n) == IF Len(arr) <= n THEN arr ELSE SubSeq(arr, Len(arr) - n + 1, Len(arr))

mergedForModel(history, lastUserText) ==
    LET last == IF history = <<>> THEN Null ELSE Some(history[Len(history)])
        combined ==
            IF lastUserText # <<>>
               /\ ~(~IsNull(last) /\ Val(last).role = "user"
                    /\ Val(last).content = lastUserText)
            THEN Append(history, UserMsg(lastUserText))
            ELSE history
    IN  sliceLast(combined, 30)

\* the tools of the OpenAI request
Tools == {"get_finance_snapshot", "get_recent_transactions", "get_spending_summary"}

offeredTools(userId) == IF ~IsNull(userId) THEN Some(Tools) ELSE Null

\* mutant: the tool calls of the model are run whoever asks
shouldRunTools_NoUserTest(userId, toolCalls) == Len(toolCalls) > 0

shouldRunTools(userId, toolCalls) == ~IsNull(userId) /\ Len(toolCalls) > 0

\* the finance query a tool call runs
toolQuery(name) ==
    CASE name = "get_finance_snapshot" -> {"getFinanceSnapshotForUser"}
      [] name = "get_recent_transactions" -> {"getRecentTransactionsForUser"}
      [] name = "get_spending_summary" -> {"getSpendingSummaryForUser"}
      [] OTHER -> {}

shouldAppend(userId, sessionId, lastUserText) ==
    ~IsNull(userId) /\ ~IsNull(sessionId) /\ lastUserText # <<>>

appendReply(c) ==
    IF shouldAppend(c.userId, c.sessionId, lastUserContent(c.messages))
    THEN [c EXCEPT !.queries = @ \cup {"appendChatMessages"}]
    ELSE c

Text_Sorry == <<"S","o","r","r","y">>
Text_Setup == <<"S","e","t","u","p">>

\* text?.trim() || "Sorry - I couldn't generate a response."
assistantTextOf(text) ==
    IF IsNull(text) \/ trim(Val(text)) = <<>> THEN Text_Sorry ELSE trim(Val(text))

\* mutant: the user message is stored whether or not the model replied
storeReply_UserFirst(c, m, assistantText) ==
    IF shouldAppend(c.userId, c.sessionId, lastUserContent(c.messages))
    THEN appendChatMessages(m, Val(c.userId), Val(c.sessionId),
                            <<UserMsg(lastUserContent(c.messages))>>
                            \o (IF IsNull(assistantText) THEN <<>>
                                ELSE <<AssistantMsg(Val(assistantText))>>))
    ELSE m

\* the stored rows after the reply of a request: appendChatMessages runs only
\* past a successful model call (assistantText is then not null)
storeReply(c, m, assistantText) ==
    IF ~IsNull(assistantText)
       /\ shouldAppend(c.userId, c.sessionId, lastUserContent(c.messages))
    THEN appendChatMessages(m, Val(c.userId), Val(c.sessionId),
                            <<UserMsg(lastUserContent(c.messages)),
                              AssistantMsg(Val(assistantText))>>)
    ELSE m

\* the message lists a client sends
RequestMessages ==
    {<<UserMsg(Text_Hi)>>,
     <<UserMsg(Text_Spend)>>,
     <<UserMsg(Text_Bills), AssistantMsg(Text_Sure)>>,
     <<AssistantMsg(Text_Sure)>>}

\* the stored rows a request finds: none, a session of the caller with two
\* messages, or a session of another user
ChatStores ==
    {EmptyMemory,
     appendChatMessages([EmptyMemory EXCEPT !.users = {"user_1"},
                                            !.sessions = <<"user_1">>],
                        "user_1", 1, <<UserMsg(Text_Balance), AssistantMsg(Text_Sure)>>),
     appendChatMessages([EmptyMemory EXCEPT !.users = {"user_2"},
                                            !.sessions = <<"user_2">>],
                        "user_2", 1, <<UserMsg(Text_Bills)>>)}

\* what the model may answer with: up to MaxToolCalls tool calls, known or not
MaxToolCalls == 2
ToolNames == Tools \cup {"export_all_accounts"}
ToolCallSeqs == UNION {[1..n -> ToolNames] : n \in 0..MaxToolCalls}

\* the text of a model reply: none, blank, or words
ReplyTexts == {Null, Some(<<" ">>), Some(Text_Sure)}

ChatRequest(provider, userId, sessionId, messages) ==
    [pc |-> "received", provider |-> provider, userId |-> userId,
     sessionId |-> sessionId, messages |-> messages, history |-> <<>>,
     queries |-> {}, prompt |-> Null, toolsOffered |-> Null, emitted |-> <<>>,
     pending |-> <<>>, executed |-> <<>>, status |-> Null, reply |-> Null]

InitChat ==
    /\ period = "1M"
    /\ accounts = <<>>
    /\ transactions = <<>>
    /\ now = Null
    /\ clock = NowMs
    /\ snapshot = Null
    /\ emptySnapshot = Null
    /\ again = Null
    /\ spendingSummary = Null
    /\ evaluation = Null
    /\ plainEvaluation = Null
    /\ chat \in {ChatRequest(pr, u, sid, msgs) :
                    pr \in {"huggingface", "openai"}, u \in {Null, Some("user_1")},
                    sid \in {Null, Some(1)}, msgs \in RequestMessages}
    /\ memory \in ChatStores
    /\ plaid = NoPlaid
    /\ stripe = NoStripe

NoFinance == <<period, accounts, transactions, now, clock, snapshot, emptySnapshot, again,
               spendingSummary, evaluation, plainEvaluation, plaid, stripe>>

\* the response of a request that got its reply, and the rows it leaves
Replied(c, text) ==
    /\ chat' = appendReply([c EXCEPT !.pc = "done", !.status = Some(200),
                                     !.reply = Some(assistantTextOf(text))])
    /\ memory' = storeReply(c, memory, Some(assistantTextOf(text)))

\* the 502 response of a request whose model call failed
Failed(c) ==
    /\ chat' = [c EXCEPT !.pc = "done", !.status = Some(502)]
    /\ memory' = storeReply(c, memory, Null)

\* POST up to the provider branch: auth(), and the session and history of a signed-in
\* user
ChatSession ==
    /\ chat.pc = "received"
    /\ IF ~IsNull(chat.userId)
       THEN LET created == getOrCreateChatSession(memory, Val(chat.userId), chat.sessionId)
                history == getChatHistory(created.memory, Val(chat.userId),
                                          created.sessionId, Some(60))
            IN  /\ chat' = [chat EXCEPT !.pc = chat.provider,
                                        !.sessionId = Some(created.sessionId),
                                        !.history = history,
                                        !.queries = @ \cup {"getOrCreateChatSession",
                                                            "getChatHistory"}]
                /\ memory' = created.memory
       ELSE /\ chat' = [chat EXCEPT !.pc = chat.provider]
            /\ UNCHANGED memory
    /\ UNCHANGED NoFinance

\* the Hugging Face branch of POST with runChatWithHuggingFace
ChatHuggingFace ==
    /\ chat.pc = "huggingface"
    /\ \E loaded \in BOOLEAN, out \in {"ok", "error", "missing key"}, text \in ReplyTexts :
           LET userId == chat.userId
               lastUserText == lastUserContent(chat.messages)
               messages == IF ~IsNull(userId) THEN mergedForModel(chat.history, lastUserText)
                           ELSE sliceLast(chat.messages, 20)
               lastUser == lastUserContent(messages)
               named == IF ~IsNull(userId) THEN {"getUserDisplayName"} ELSE {}
               load == ~IsNull(userId) /\ looksLikeFinanceQuestion(lastUser)
               financeContext ==
                   IF load THEN Some(IF loaded THEN "finance" ELSE "error") ELSE Null
               asked == IF load
                        THEN {"getFinanceSnapshotForUser", "getRecentTransactionsForUser",
                              "getSpendingSummaryForUser"}
                        ELSE {}
               called == [chat EXCEPT !.queries = @ \cup named \cup asked,
                                      !.prompt = Some([financeContext |-> financeContext,
                                                       messages |-> messages])]
           IN  IF out = "missing key"
               THEN /\ chat' = [chat EXCEPT !.pc = "done", !.status = Some(200),
                                            !.reply = Some(Text_Setup)]
                    /\ UNCHANGED memory
               ELSE IF out = "ok" THEN Replied(called, text) ELSE Failed(called)
    /\ UNCHANGED NoFinance

\* the OpenAI branch of POST up to the answer of the first model call
ChatOpenAIFirst ==
    /\ chat.pc = "openai"
    /\ \E ok \in BOOLEAN, toolCalls \in ToolCallSeqs, text \in ReplyTexts :
           LET called == [chat EXCEPT !.toolsOffered = offeredTools(chat.userId)]
           IN  IF ~ok THEN Failed(called)
               ELSE IF shouldRunTools(chat.userId, toolCalls)
               THEN /\ chat' = [called EXCEPT !.pc = "tools", !.emitted = toolCalls,
                                              !.pending = toolCalls]
                    /\ UNCHANGED memory
               ELSE Replied([called EXCEPT !.emitted = toolCalls], text)
    /\ UNCHANGED NoFinance

\* one turn of the loop over the tool calls
ChatRunTool ==
    /\ chat.pc = "tools"
    /\ chat.pending # <<>>
    /\ LET name == Head(chat.pending)
       IN  chat' = [chat EXCEPT !.pending = Tail(@),
                                !.queries = @ \cup toolQuery(name),
                                !.executed = IF name \in Tools THEN Append(@, name) ELSE @]
    /\ UNCHANGED memory
    /\ UNCHANGED NoFinance

\* the second model call and the reply
ChatOpenAISecond ==
    /\ chat.pc = "tools"
    /\ chat.pending = <<>>
    /\ \E ok \in BOOLEAN, text \in ReplyTexts :
           IF ok THEN Replied(chat, text) ELSE Failed(chat)
    /\ UNCHANGED NoFinance

NextChat ==
    ChatSession \/ ChatHuggingFace \/ ChatOpenAIFirst \/ ChatRunTool \/ ChatOpenAISecond

SpecChat == InitChat /\ [][NextChat]_vars

\* --- the snapshot builder on rows dated at the edges of its windows
Str_StreamingTravel == <<"S","t","r","e","a","m","i","n","g"," ","T","r","a","v","e","l">>
Str_entertainment == <<"e","n","t","e","r","t","a","i","n","m","e","n","t">>
Str_Empty == <<>>

\* rows newest first: after now, at now, and on either side of the 7, 30 and 60 day
\* edges (the model's time unit is the hour)
WindowPool ==
    <<Tx("w1", NowMs + DayMs, Lit(-300, 100), Some(Str_Travel)),
      Tx("w2", NowMs, Lit(-125, 100), Some(Str_Groceries)),
      Tx("w3", NowMs - 1, Lit(-250, 100), Some(Str_StreamingTravel)),
      Tx("w13", NowMs - 2 * DayMs, Lit(-25, 100), Some(Str_Streaming)),
      Tx("w4", NowMs - 3 * DayMs, Lit(2000, 100), Null),
      Tx("w5", NowMs - 7 * DayMs, Lit(-400, 100), Some(Str_entertainment)),
      Tx("w6", NowMs - 7 * DayMs - 1, Lit(-175, 100), Null),
      Tx("w7", NowMs - 10 * DayMs, Lit(100, 100), Null),
      Tx("w8", NowMs - 30 * DayMs, Lit(-600, 100), Some(Str_Empty)),
      Tx("w9", NowMs - 30 * DayMs - 1, Lit(-350, 100), Some(Str_subscription)),
      Tx("w10", NowMs - 45 * DayMs, Lit(1600, 100), Null),
      Tx("w11", NowMs - 60 * DayMs, Lit(-200, 100), Some(Str_Rent)),
      Tx("w12", NowMs - 60 * DayMs - 1, Lit(-900, 100), Some(Str_Travel))>>

WindowLists ==
    {Pick(WindowPool, q) :
        q \in {r \in DistinctSeqs(Len(WindowPool), MaxTx) : IsIncreasing(r)}}

InitWindows ==
    /\ period \in Periods
    /\ accounts \in {<<>>, <<AccountEur, AccountUsd>>}
    /\ transactions \in WindowLists
    /\ now = Some(NowMs)
    /\ clock = NowMs
    /\ snapshot = Null
    /\ emptySnapshot = Null
    /\ again = Null
    /\ spendingSummary = Null
    /\ evaluation = Null
    /\ plainEvaluation = Null
    /\ chat = NoChat
    /\ NoStores

NextWindows == Build

SpecWindows == InitWindows /\ [][NextWindows]_vars

\* --- the snapshot builder on accounts of many currency codes
AccountOf(code) == [currentBalance |-> Null, availableBalance |-> Null, currencyCode |-> code]

\* the currency codes a stored account may carry
CurrencyCodes ==
    {Null, Some(<<"u","s","d">>), Some(<<"U","S","D">>), Some(<<" ","E","U","R"," ">>), Some(<<"g","b","p">>), Some(<<"U","$","D">>), Some(<<"U","S">>)}

MaxAccounts == 4

CurrencyAccountLists ==
    UNION {[1..n -> {AccountOf(c) : c \in CurrencyCodes}] : n \in 0..MaxAccounts}

InitCurrency ==
    /\ period = "1W"
    /\ accounts \in CurrencyAccountLists
    /\ transactions = <<>>
    /\ now = Some(NowMs)
    /\ clock = NowMs
    /\ snapshot = Null
    /\ emptySnapshot = Null
    /\ again = Null
    /\ spendingSummary = Null
    /\ evaluation = Null
    /\ plainEvaluation = Null
    /\ chat = NoChat
    /\ NoStores

NextCurrency == Build

SpecCurrency == InitCurrency /\ [][NextCurrency]_vars

\* --- the snapshot builder on more rows than recentTransactions holds
\* rows of three dates: an expense, an income and a zero amount of one day, an
\* expense and an income of another, and an old expense
RecentPool ==
    <<Tx("r1", NowMs - DayMs, Lit(-500, 100), Some(Str_Travel)),
      Tx("r2", NowMs - DayMs, Lit(1000, 100), Some(Str_Streaming)),
      Tx("r3", NowMs - DayMs, Zero, Some(Str_Groceries)),
      Tx("r4", NowMs - 40 * DayMs, Lit(-700, 100), Some(Str_Rent)),
      Tx("r5", NowMs - 40 * DayMs, Lit(300, 100), Null),
      Tx("r6", NowMs - 400 * DayMs, Lit(-200, 100), Null)>>

\* the rows in any order the caller holds them
RecentLists ==
    {Pick(RecentPool, q) : q \in DistinctSeqs(Len(RecentPool), Len(RecentPool))}

InitRecent ==
    /\ period = "1W"
    /\ accounts = <<>>
    /\ transactions \in RecentLists
    /\ now = Some(NowMs)
    /\ clock = NowMs
    /\ snapshot = Null
    /\ emptySnapshot = Null
    /\ again = Null
    /\ spendingSummary = Null
    /\ evaluation = Null
    /\ plainEvaluation = Null
    /\ chat = NoChat
    /\ NoStores

NextRecent == Build

SpecRecent == InitRecent /\ [][NextRecent]_vars

\* --- build or buildEmpty, then evaluate, on requests with little or no data
\* accounts whose balances cancel, and one without a balance
BalancePool ==
    <<[currentBalance |-> Some(Lit(10, 100)), availableBalance |-> Null,
       currencyCode |-> Null],
      [currentBalance |-> Some(Lit(20, 100)), availableBalance |-> Null,
       currencyCode |-> Null],
      [currentBalance |-> Some(Lit(-10, 100)), availableBalance |-> Null,
       currencyCode |-> Null],
      [currentBalance |-> Some(Lit(-20, 100)), availableBalance |-> Null,
       currencyCode |-> Null],
      [currentBalance |-> Null, availableBalance |-> Null, currencyCode |-> Null]>>

\* the accounts in any order the caller holds them
BalanceLists == {Pick(BalancePool, q) : q \in DistinctSeqs(Len(BalancePool), MaxAccounts)}

\* no row, one row of amount 0 older than every window, or one expense of
\* two days ago
NoDataLists ==
    {<<>>,
     <<Tx("z1", NowMs - 800 * DayMs, Zero, Null)>>,
     <<Tx("z2", NowMs - 2 * DayMs, Lit(-25, 100), Some(Str_Groceries))>>}

InitNoData ==
    /\ period \in Periods
    /\ accounts \in BalanceLists
    /\ transactions \in NoDataLists
    /\ now = Some(NowMs)
    /\ clock = NowMs
    /\ snapshot = Null
    /\ emptySnapshot = Null
    /\ again = Null
    /\ spendingSummary = Null
    /\ evaluation = Null
    /\ plainEvaluation = Null
    /\ chat = NoChat
    /\ NoStores

\* evaluate(buildEmpty(period)), no summary passed: the result is kept in
\* evaluation
EvaluateEmpty ==
    /\ emptySnapshot # Null
    /\ evaluation = Null
    /\ evaluation' = Some(buildFinanceEvaluation(
                         [snapshot |-> Val(emptySnapshot), spendingSummary |-> Null]))
    /\ UNCHANGED <<inputs, clock, snapshot, emptySnapshot, again, spendingSummary,
                   plainEvaluation, chat, stores>>

NextNoData == Build \/ BuildEmpty \/ EvaluatePlain \/ EvaluateEmpty

SpecNoData == InitNoData /\ [][NextNoData]_vars

\* --- the snapshot builder on rows of whole currency units
\* two expenses of one hour, expenses on either side of the 7 and 30 day edges
\* and at now, an income, and one amount that is not whole
WholePool ==
    <<Tx("h7", NowMs, Lit(-800, 100), Some(Str_Rent)),
      Tx("h1", NowMs - 1, Lit(-300, 100), Some(Str_Streaming)),
      Tx("h2", NowMs - 1, Lit(-200, 100), Some(Str_Travel)),
      Tx("h9", NowMs - 2 * DayMs, Lit(-50, 100), Some(Str_Groceries)),
      Tx("h8", NowMs - 3 * DayMs, Lit(2000, 100), Null),
      Tx("h3", NowMs - 7 * DayMs, Lit(-400, 100), Some(Str_Groceries)),
      Tx("h4", NowMs - 7 * DayMs - 1, Lit(-500, 100), Some(Str_subscription)),
      Tx("h5", NowMs - 30 * DayMs, Lit(-600, 100), Null),
      Tx("h6", NowMs - 30 * DayMs - 1, Lit(-700, 100), Some(Str_Travel))>>

WholeLists ==
    {Pick(WholePool, q) :
        q \in {r \in DistinctSeqs(Len(WholePool), MaxTx) : IsIncreasing(r)}}

InitWhole ==
    /\ period \in Periods
    /\ accounts = <<>>
    /\ transactions \in WholeLists
    /\ now = Some(NowMs)
    /\ clock = NowMs
    /\ snapshot = Null
    /\ emptySnapshot = Null
    /\ again = Null
    /\ spendingSummary = Null
    /\ evaluation = Null
    /\ plainEvaluation = Null
    /\ chat = NoChat
    /\ NoStores

NextWhole == Build

SpecWhole == InitWhole /\ [][NextWhole]_vars

\* --- the chat memory, used by any signed-in user in any order
\* the session ids a caller may send: none, one no row carries, or any stored one
SessionArgs == {Null, Some(UnknownSession)} \cup {Some(i) : i \in 1..MaxSessions}

\* the messages a caller may append
AppendArgs == {<<>>, <<UserMsg(Text_Hi)>>, <<UserMsg(Text_Spend), AssistantMsg(Text_Sure)>>}

InitMemory ==
    /\ period = "1M"
    /\ accounts = <<>>
    /\ transactions = <<>>
    /\ now = Null
    /\ clock = NowMs
    /\ snapshot = Null
    /\ emptySnapshot = Null
    /\ again = Null
    /\ spendingSummary = Null
    /\ evaluation = Null
    /\ plainEvaluation = Null
    /\ chat = NoChat
    /\ memory = EmptyMemory
    /\ plaid = NoPlaid
    /\ stripe = NoStripe

NoMemoryChange == <<period, accounts, transactions, now, clock, snapshot, emptySnapshot,
                    again, spendingSummary, evaluation, plainEvaluation, chat, plaid,
                    stripe>>

\* a call of getOrCreateChatSession by a signed-in user
GetOrCreate ==
    \E u \in Users, sid \in SessionArgs :
        LET r == getOrCreateChatSession(memory, u, sid)
        IN  /\ Len(r.memory.sessions) <= MaxSessions
            /\ memory' = [r.memory EXCEPT !.last =
                              Some([op |-> "getOrCreateChatSession", userId |-> u,
                                    sessionId |-> sid, returned |-> r.sessionId,
                                    before |-> memory.sessions,
                                    rowsBefore |-> Len(memory.messages)])]
            /\ UNCHANGED NoMemoryChange

\* a call of getChatHistory
GetHistory ==
    \E u \in Users, sid \in SessionArgs \ {Null}, limit \in {Null, Some(0), Some(2)} :
        /\ memory' = [memory EXCEPT !.last =
                          Some([op |-> "getChatHistory", userId |-> u,
                                sessionId |-> sid, limit |-> limit,
                                returned |-> getChatHistory(memory, u, Val(sid), limit),
                                before |-> memory.sessions,
                                    rowsBefore |-> Len(memory.messages)])]
        /\ UNCHANGED NoMemoryChange

\* a call of appendChatMessages
AppendMessages ==
    \E u \in Users, sid \in SessionArgs \ {Null}, msgs \in AppendArgs :
        LET m == appendChatMessages(memory, u, Val(sid), msgs)
        IN  /\ Len(m.messages) <= MaxRows
            /\ memory' = [m EXCEPT !.last =
                              Some([op |-> "appendChatMessages", userId |-> u,
                                    sessionId |-> sid, returned |-> msgs,
                                    before |-> memory.sessions,
                                    rowsBefore |-> Len(memory.messages)])]
            /\ UNCHANGED NoMemoryChange

\* POST /api/chat/session of a signed-in user: the session, then its history
SessionRoute ==
    \E u \in Users, sid \in SessionArgs :
        LET r == getOrCreateChatSession(memory, u, sid)
            messages == getChatHistory(r.memory, u, r.sessionId, Some(60))
        IN  /\ Len(r.memory.sessions) <= MaxSessions
            /\ memory' = [r.memory EXCEPT !.last =
                              Some([op |-> "POST /api/chat/session", userId |-> u,
                                    sessionId |-> sid,
                                    returned |-> [sessionId |-> r.sessionId,
                                                  messages |-> messages],
                                    before |-> memory.sessions,
                                    rowsBefore |-> Len(memory.messages)])]
            /\ UNCHANGED NoMemoryChange

NextMemory == GetOrCreate \/ GetHistory \/ AppendMessages \/ SessionRoute

SpecMemory == InitMemory /\ [][NextMemory]_vars

\* --- the Plaid sync of one connection, a step at each wait of the handler
\* the accounts Plaid reports for the connection
PlaidAccounts ==
    <<[account_id |-> "acc_a", current |-> Some(Num(40))],
      [account_id |-> "acc_b", current |-> Null]>>

PlaidTx(id, account, amount) ==
    [transaction_id |-> id, account_id |-> account, amount |-> Num(amount)]

\* the pages of added transactions Plaid serves, oldest first; a cursor is the
\* number of pages consumed
PagePool ==
    <<<<PlaidTx("t1", "acc_a", 5), PlaidTx("t2", "acc_x", 7)>>,
      <<PlaidTx("t3", "acc_b", -3)>>,
      <<PlaidTx("t1", "acc_a", 6), PlaidTx("t4", "acc_b", 2)>>,
      <<PlaidTx("t5", "acc_a", 1)>>>>

MaxPages == 3
MaxFailures == 2

Feed == SubSeq(PagePool, 1, MaxPages)

\* plaid.transactionsSync({ cursor })
transactionsSync(cursor) ==
    LET c == IF IsNull(cursor) THEN 0 ELSE Val(cursor)
    IN  IF c >= Len(Feed)
        THEN [added |-> <<>>, next_cursor |-> c, has_more |-> FALSE]
        ELSE [added |-> Feed[c + 1], next_cursor |-> c + 1, has_more |-> c + 1 < Len(Feed)]

\* prisma.bankAccount.upsert on (connectionId, providerAccountId); the id of a
\* new row is its place in the table
upsertAccount(rows, acct) ==
    IF \E k \in 1..Len(rows) : rows[k].providerAccountId = acct.account_id
    THEN [k \in 1..Len(rows) |->
             IF rows[k].providerAccountId = acct.account_id
             THEN [rows[k] EXCEPT !.currentBalance = acct.current]
             ELSE rows[k]]
    ELSE Append(rows, [id |-> Len(rows) + 1, providerAccountId |-> acct.account_id,
                       currentBalance |-> acct.current])

\* prisma.bankAccount.findUnique on (connectionId, providerAccountId)
findAccount(rows, account_id) ==
    IF \E k \in 1..Len(rows) : rows[k].providerAccountId = account_id
    THEN Some(rows[CHOOSE k \in 1..Len(rows) : rows[k].providerAccountId = account_id])
    ELSE Null

\* mutant: a row is created for every added transaction
upsertTransaction_Create(rows, accountId, t) ==
    Append(rows, [accountId |-> accountId, providerTransactionId |-> t.transaction_id,
                  amount |-> QNeg(t.amount)])

\* prisma.bankTransaction.upsert on (accountId, providerTransactionId)
upsertTransaction(rows, accountId, t) ==
    IF \E k \in 1..Len(rows) : /\ rows[k].accountId = accountId
                               /\ rows[k].providerTransactionId = t.transaction_id
    THEN [k \in 1..Len(rows) |->
             IF rows[k].accountId = accountId
                /\ rows[k].providerTransactionId = t.transaction_id
             THEN [rows[k] EXCEPT !.amount = QNeg(t.amount)]
             ELSE rows[k]]
    ELSE Append(rows, [accountId |-> accountId, providerTransactionId |-> t.transaction_id,
                       amount |-> QNeg(t.amount)])

\* one turn of the loop over sync.data.added
storeAdded(accountRows, rows, t) ==
    LET account == findAccount(accountRows, t.account_id)
    IN  IF IsNull(account) THEN rows ELSE upsertTransaction(rows, Val(account).id, t)

\* the stored rows a sync finds: none, or those of a sync that ran when Plaid
\* had served one page and reported other balances
StartStores ==
    {[accounts |-> <<>>, transactions |-> <<>>, cursorRow |-> Null],
     [accounts |-> <<[id |-> 1, providerAccountId |-> "acc_b", currentBalance |-> Some(Num(9))],
                     [id |-> 2, providerAccountId |-> "acc_a", currentBalance |-> Null]>>,
      transactions |-> <<[accountId |-> 2, providerTransactionId |-> "t1",
                          amount |-> Num(-5)]>>,
      cursorRow |-> Some([cursor |-> Some(1)])],
     [accounts |-> <<>>, transactions |-> <<>>, cursorRow |-> Some([cursor |-> Null])]}

\* start and failures are kept for the record only: the rows the first request
\* found, and where each failed request stopped
SyncRequest(store) ==
    [kind |-> "sync", accounts |-> store.accounts, transactions |-> store.transactions,
     cursorRow |-> store.cursorRow, pc |-> "start", todo |-> <<>>, cursor |-> Null,
     hasMore |-> FALSE, next |-> Null, start |-> store, failures |-> <<>>]

InitSync ==
    /\ period = "1M"
    /\ accounts = <<>>
    /\ transactions = <<>>
    /\ now = Null
    /\ clock = NowMs
    /\ snapshot = Null
    /\ emptySnapshot = Null
    /\ again = Null
    /\ spendingSummary = Null
    /\ evaluation = Null
    /\ plainEvaluation = Null
    /\ chat = NoChat
    /\ memory = NoMemory
    /\ plaid \in {SyncRequest(store) : store \in StartStores}
    /\ stripe = NoStripe

NoSyncChange == <<period, accounts, transactions, now, clock, snapshot, emptySnapshot,
                  again, spendingSummary, evaluation, plainEvaluation, chat, memory,
                  stripe>>

\* plaid.accountsGet
SyncAccountsGet ==
    /\ plaid.kind = "sync" /\ plaid.pc = "start"
    /\ plaid' = [plaid EXCEPT !.pc = "accounts", !.todo = PlaidAccounts]
    /\ UNCHANGED NoSyncChange

\* one turn of the loop over the accounts
SyncUpsertAccount ==
    /\ plaid.kind = "sync" /\ plaid.pc = "accounts" /\ plaid.todo # <<>>
    /\ plaid' = [plaid EXCEPT !.accounts = upsertAccount(@, Head(plaid.todo)),
                              !.todo = Tail(@)]
    /\ UNCHANGED NoSyncChange

\* prisma.bankSyncCursor.upsert with an empty update, and the loop's variables
SyncCursorRow ==
    /\ plaid.kind = "sync" /\ plaid.pc = "accounts" /\ plaid.todo = <<>>
    /\ LET cursorRow == IF IsNull(plaid.cursorRow) THEN [cursor |-> Null]
                        ELSE Val(plaid.cursorRow)
       IN  plaid' = [plaid EXCEPT !.cursorRow = Some(cursorRow),
                                  !.cursor = cursorRow.cursor,
                                  !.hasMore = TRUE, !.pc = "loop"]
    /\ UNCHANGED NoSyncChange

\* plaid.transactionsSync at the top of the while loop
SyncPage ==
    /\ plaid.kind = "sync" /\ plaid.pc = "loop" /\ plaid.hasMore
    /\ LET sync == transactionsSync(plaid.cursor)
       IN  plaid' = [plaid EXCEPT !.pc = "page", !.todo = sync.added,
                                  !.next = Some([next_cursor |-> sync.next_cursor,
                                                 has_more |-> sync.has_more])]
    /\ UNCHANGED NoSyncChange

\* one turn of the loop over the added transactions of the page
SyncStoreAdded ==
    /\ plaid.kind = "sync" /\ plaid.pc = "page" /\ plaid.todo # <<>>
    /\ plaid' = [plaid EXCEPT !.transactions =
                                  storeAdded(plaid.accounts, @, Head(plaid.todo)),
                              !.todo = Tail(@)]
    /\ UNCHANGED NoSyncChange

\* cursor = sync.data.next_cursor; hasMore = sync.data.has_more
SyncPageDone ==
    /\ plaid.kind = "sync" /\ plaid.pc = "page" /\ plaid.todo = <<>>
    /\ plaid' = [plaid EXCEPT !.cursor = Some(Val(plaid.next).next_cursor),
                              !.hasMore = Val(plaid.next).has_more,
                              !.next = Null, !.pc = "loop"]
    /\ UNCHANGED NoSyncChange

\* prisma.bankSyncCursor.update past the while loop, and the response
SyncFinish ==
    /\ plaid.kind = "sync" /\ plaid.pc = "loop" /\ ~plaid.hasMore
    /\ plaid' = [plaid EXCEPT !.cursorRow = Some([cursor |-> plaid.cursor]),
                              !.pc = "done"]
    /\ UNCHANGED NoSyncChange

\* any wait of the handler throws: the catch block answers 500
SyncFail ==
    /\ plaid.kind = "sync" /\ plaid.pc \in {"start", "accounts", "loop", "page"}
    /\ Len(plaid.failures) < MaxFailures
    /\ plaid' = [plaid EXCEPT !.pc = "failed",
                              !.failures = Append(@, [pc |-> plaid.pc,
                                                      rows |-> Len(plaid.transactions)])]
    /\ UNCHANGED NoSyncChange

\* the next POST of the same connection
SyncRetry ==
    /\ plaid.kind = "sync" /\ plaid.pc = "failed"
    /\ plaid' = [plaid EXCEPT !.pc = "start", !.todo = <<>>, !.cursor = Null,
                              !.hasMore = FALSE, !.next = Null]
    /\ UNCHANGED NoSyncChange

NextSync ==
    \/ SyncAccountsGet \/ SyncUpsertAccount \/ SyncCursorRow \/ SyncPage
    \/ SyncStoreAdded \/ SyncPageDone \/ SyncFinish \/ SyncFail \/ SyncRetry

SpecSync == InitSync /\ [][NextSync]_vars

\* --- the Stripe customer of one user under concurrent requests, a step at each
\* wait of the handlers
MaxRequests == 2

StripeRoutes == {"setup-intent", "payment-methods"}

\* customers are numbered in order of creation at Stripe; held is kept for the
\* record only: every value User.stripeCustomerId has held, oldest first
StripeUser(linked, routes) ==
    [kind |-> "user",
     stripeCustomerId |-> IF linked THEN Some(1) ELSE Null,
     customers |-> IF linked THEN 1 ELSE 0,
     held |-> IF linked THEN <<1>> ELSE <<>>,
     requests |-> [r \in 1..Len(routes) |->
                      [route |-> routes[r], pc |-> "received", customerId |-> Null]]]

InitStripe ==
    /\ period = "1M"
    /\ accounts = <<>>
    /\ transactions = <<>>
    /\ now = Null
    /\ clock = NowMs
    /\ snapshot = Null
    /\ emptySnapshot = Null
    /\ again = Null
    /\ spendingSummary = Null
    /\ evaluation = Null
    /\ plainEvaluation = Null
    /\ chat = NoChat
    /\ memory = NoMemory
    /\ plaid = NoPlaid
    /\ stripe \in {StripeUser(linked, routes) :
                      linked \in BOOLEAN,
                      routes \in UNION {[1..n -> StripeRoutes] : n \in 1..MaxRequests}}

NoStripeChange == <<period, accounts, transactions, now, clock, snapshot, emptySnapshot,
                    again, spendingSummary, evaluation, plainEvaluation, chat, memory,
                    plaid>>

\* prisma.user.upsert with an empty update, selecting stripeCustomerId, and
\* let customerId = user.stripeCustomerId
StripeUpsertUser ==
    \E r \in 1..Len(stripe.requests) :
        /\ stripe.requests[r].pc = "received"
        /\ stripe' = [stripe EXCEPT
                          !.requests[r].customerId = stripe.stripeCustomerId,
                          !.requests[r].pc = IF IsNull(stripe.stripeCustomerId)
                                             THEN "create" ELSE "linked"]
        /\ UNCHANGED NoStripeChange

\* stripe.customers.create under if (!customerId)
StripeCreateCustomer ==
    \E r \in 1..Len(stripe.requests) :
        /\ stripe.requests[r].pc = "create"
        /\ stripe' = [stripe EXCEPT
                          !.customers = @ + 1,
                          !.requests[r].customerId = Some(stripe.customers + 1),
                          !.requests[r].pc = "update"]
        /\ UNCHANGED NoStripeChange

\* prisma.user.update({ data: { stripeCustomerId: customerId } })
StripeUpdateUser ==
    \E r \in 1..Len(stripe.requests) :
        /\ stripe.requests[r].pc = "update"
        /\ stripe' = [stripe EXCEPT
                          !.stripeCustomerId = stripe.requests[r].customerId,
                          !.held = Append(@, Val(stripe.requests[r].customerId)),
                          !.requests[r].pc = "linked"]
        /\ UNCHANGED NoStripeChange

\* the rest of the handler works on customerId and answers
StripeUseCustomer ==
    \E r \in 1..Len(stripe.requests) :
        /\ stripe.requests[r].pc = "linked"
        /\ stripe' = [stripe EXCEPT !.requests[r].pc = "done"]
        /\ UNCHANGED NoStripeChange

NextStripe ==
    StripeUpsertUser \/ StripeCreateCustomer \/ StripeUpdateUser \/ StripeUseCustomer

SpecStripe == InitStripe /\ [][NextStripe]_vars

\* ------------------------------------------------------------------ claims
Built == snapshot # Null
Snap == Val(snapshot)

\* the integer a whole number stands for
AsInt(x) == x[1]

\* C1: in every bucket of a built snapshot the rounded total differs from the sum
\* of the three rounded sub-series by at most 1.
C1_TotalWithinOneOfParts ==
    Built =>
        \A i \in 1..Len(Snap.series.total) :
            Abs(AsInt(Snap.series.total[i])
                - (AsInt(Snap.series.essentials[i]) + AsInt(Snap.series.leisure[i])
                   + AsInt(Snap.series.subscriptions[i]))) <= 1

\* C2: the KPI block of a built snapshot keeps savingsRate in [0, 0.95],
\* monthlySpendTrendPct in [-0.9, 0.9], currentBalanceTrendPct in [-0.5, 0.5] and
\* savingsRateTrendPctPoints in [-50, 50] (the decimal bounds as the program holds them).
C2_KpisWithinBounds ==
    Built =>
        LET k == Snap.kpis
        IN  /\ Le(Zero, k.savingsRate) /\ Le(k.savingsRate, Lit(95, 100))
            /\ Le(Lit(-9, 10), k.monthlySpendTrendPct)
            /\ Le(k.monthlySpendTrendPct, Lit(9, 10))
            /\ Le(Lit(-1, 2), k.currentBalanceTrendPct)
            /\ Le(k.currentBalanceTrendPct, Lit(1, 2))
            /\ Le(Num(-50), k.savingsRateTrendPctPoints)
            /\ Le(k.savingsRateTrendPctPoints, Num(50))

\* a built snapshot in which three of the clamps are active at once
C2_Witness ==
    /\ Built
    /\ Snap.kpis.monthlySpendTrendPct = Lit(9, 10)
    /\ Snap.kpis.currentBalanceTrendPct = Lit(-1, 2)
    /\ Snap.kpis.savingsRateTrendPctPoints = Num(-50)

\* a built snapshot whose savings rate sits on its upper clamp
C2_WitnessSavingsRateCap ==
    Built /\ Snap.kpis.savingsRate = Lit(95, 100)

BothBuilt == Built /\ emptySnapshot # Null
EmptySnap == Val(emptySnapshot)
EmptyInputs == accounts = <<>> /\ transactions = <<>>

AllZero(arr) == \A i \in 1..Len(arr) : arr[i] = Zero

ZeroSeriesOfLength(series, len) ==
    /\ Len(series.total) = len /\ AllZero(series.total)
    /\ Len(series.essentials) = len /\ AllZero(series.essentials)
    /\ Len(series.leisure) = len /\ AllZero(series.leisure)
    /\ Len(series.subscriptions) = len /\ AllZero(series.subscriptions)

KpiFieldsButDueDays ==
    {"currentBalance", "currentBalanceTrendPct", "monthlySpend", "monthlySpendTrendPct",
     "savingsRate", "savingsRateTrendPctPoints", "upcomingBills"}

\* C3 as stated: build with no accounts and no transactions returns the same kpis
\* block as buildEmpty, every KPI field 0, zero series of the same lengths, and no
\* recent transactions.
C3_EmptyBuildSameAsBuildEmpty ==
    (BothBuilt /\ EmptyInputs) =>
        /\ Snap.kpis = EmptySnap.kpis
        /\ \A f \in DOMAIN Snap.kpis : Snap.kpis[f] = Zero
        /\ ZeroSeriesOfLength(Snap.series, Len(EmptySnap.series.total))
        /\ Snap.recentTransactions = <<>>

\* C3 amended: the two kpis blocks agree, with value 0, in every field except
\* upcomingBillsDueInDays, which is 7 from build and 0 from buildEmpty; the series
\* are zero-filled with the same lengths and recentTransactions is empty in both.
C3_EmptyBuildSameExceptDueDays ==
    (BothBuilt /\ EmptyInputs) =>
        /\ DOMAIN Snap.kpis = DOMAIN EmptySnap.kpis
        /\ \A f \in KpiFieldsButDueDays :
              Snap.kpis[f] = Zero /\ EmptySnap.kpis[f] = Zero
        /\ Snap.kpis.upcomingBillsDueInDays = Num(7)
        /\ EmptySnap.kpis.upcomingBillsDueInDays = Zero
        /\ ZeroSeriesOfLength(Snap.series, Len(EmptySnap.series.total))
        /\ ZeroSeriesOfLength(EmptySnap.series, Len(Snap.series.total))
        /\ Len(Snap.points) = Len(EmptySnap.points) /\ AllZero(Snap.points)
        /\ Snap.recentTransactions = <<>>
        /\ EmptySnap.recentTransactions = <<>>

\* both functions have run on a request with no accounts and no transactions
C3_Witness == BothBuilt /\ EmptyInputs /\ period = "ALL"

\* ------------------------------------------------------- claims on evaluate
Evaluated == evaluation # Null
Eval == Val(evaluation)
EvalOk == Evaluated /\ Eval.status = "ok"
Kpis == Snap.kpis

\* the three conditions of "no data", read off the snapshot passed in
NoRecent == Snap.recentTransactions = <<>>
NoSeries == AllZero(Snap.points) /\ AllZero(Snap.series.total)
NoKpiSignal ==
    Kpis.currentBalance = Zero /\ Kpis.monthlySpend = Zero /\ Kpis.savingsRate = Zero

\* C4: evaluate returns "no_data" exactly when recentTransactions is empty, points and
\* series.total are all 0 and currentBalance, monthlySpend and savingsRate are 0; then
\* the score is null, the one insight is the "info" onboarding entry (no rule has
\* added another), and there are two next actions; otherwise the status is "ok".
C4_NoDataIffAllThree ==
    Evaluated =>
        /\ Eval.status = "no_data" <=> (NoRecent /\ NoSeries /\ NoKpiSignal)
        /\ Eval.status # "no_data" => Eval.status = "ok"
        /\ Eval.status = "no_data" =>
              /\ Eval.score = Null
              /\ Len(Eval.insights) = 1
              /\ Eval.insights[1].severity = "info"
              /\ Eval.insights[1].title = "Connect your accounts"
              /\ Len(Eval.nextActions) = 2

\* no data, although the trend and the bills estimate would each fire a rule
C4_Witness ==
    /\ Evaluated /\ Eval.status = "no_data"
    /\ Kpis.monthlySpendTrendPct = Lit(9, 10)
    /\ Gt(Kpis.upcomingBills, Zero)
    /\ spendingSummary # Null

\* the concentration penalty of C5, from the share reported in the metrics
C5_Penalty(share) ==
    IF IsNull(share) THEN Zero
    ELSE clamp(Times(Minus(Val(share), Lit(35, 100)), Num(40)), Zero, Num(12))

C5_Formula(k, share) ==
    MathRound(clamp(
        Minus(Plus(Plus(Plus(Num(50),
                             clamp(Times(Minus(k.savingsRate, Lit(2, 10)), Num(120)),
                                   Num(-30), Num(40))),
                        clamp(Times(QNeg(k.monthlySpendTrendPct), Num(25)),
                              Num(-15), Num(15))),
                   clamp(Times(k.currentBalanceTrendPct, Num(20)), Num(-10), Num(10))),
              C5_Penalty(share)),
        Zero, Num(100)))

\* C5: with status "ok" the score is a whole number in [0, 100] equal to
\* round(clamp(50 + savings term + trend term + balance term - P, 0, 100)); it is 50
\* for savingsRate 0.20, both trends 0 and no top1Share.
C5_ScoreFormula ==
    EvalOk =>
        LET score == Val(Eval.score)
            share == Eval.metrics.categoryConcentrationTop1Pct
        IN  /\ IsInt(score) /\ Le(Zero, score) /\ Le(score, Num(100))
            /\ score = C5_Formula(Kpis, share)
            /\ (Kpis.savingsRate = Lit(2, 10) /\ Kpis.monthlySpendTrendPct = Zero
                /\ Kpis.currentBalanceTrendPct = Zero /\ IsNull(share)) => score = Num(50)

\* the scenario of the specification: the score is 50
C5_Witness ==
    /\ EvalOk
    /\ Kpis.savingsRate = Lit(2, 10) /\ Kpis.monthlySpendTrendPct = Zero
    /\ Kpis.currentBalanceTrendPct = Zero
    /\ IsNull(Eval.metrics.categoryConcentrationTop1Pct)
    /\ Eval.score = Some(Num(50))

\* the savings term on its upper clamp, a penalty taken off
C5_WitnessClamped ==
    /\ EvalOk
    /\ Kpis.savingsRate = Lit(95, 100)
    /\ ~IsNull(Eval.metrics.categoryConcentrationTop1Pct)
    /\ Gt(C5_Penalty(Eval.metrics.categoryConcentrationTop1Pct), Zero)

ScoreLe(a, b) == IF IsNull(a) \/ IsNull(b) THEN a = b ELSE Le(Val(a), Val(b))

\* C8: for one snapshot, the score with a spending summary is never above the score
\* without one, and the two are equal when top1Share is absent or <= 0.35.
C8_ConcentrationNeverBonus ==
    (Evaluated /\ plainEvaluation # Null /\ spendingSummary # Null) =>
        LET with == Eval.score
            without == Val(plainEvaluation).score
            share == Eval.metrics.categoryConcentrationTop1Pct
        IN  /\ ScoreLe(with, without)
            /\ (IsNull(share) \/ Le(Val(share), Lit(35, 100))) => with = without

\* a summary whose top share is below 0.35, and one that costs points
C8_Witness ==
    /\ Evaluated /\ plainEvaluation # Null /\ spendingSummary # Null
    /\ EvalOk
    /\ ~IsNull(Eval.metrics.categoryConcentrationTop1Pct)
    /\ Lt(Val(Eval.metrics.categoryConcentrationTop1Pct), Lit(35, 100))

C8_WitnessPenalised ==
    /\ Evaluated /\ plainEvaluation # Null /\ spendingSummary # Null
    /\ EvalOk
    /\ Lt(Val(Eval.score), Val(Val(plainEvaluation).score))

Count(insights, title) ==
    Cardinality({i \in 1..Len(insights) : insights[i].title = title})

\* C9: with status "ok", the risk entry "Spending is trending up" is present exactly
\* when monthlySpendTrendPct > 0.15, once, carrying round(trend * 100); the info
\* entry "Spending is trending down" exactly when the trend is < -0.15; never both.
C9_TrendInsight ==
    EvalOk =>
        LET tr == Kpis.monthlySpendTrendPct
            up == {i \in 1..Len(Eval.insights) :
                      Eval.insights[i].title = "Spending is trending up"}
            down == {i \in 1..Len(Eval.insights) :
                        Eval.insights[i].title = "Spending is trending down"}
        IN  /\ up # {} <=> Gt(tr, Lit(15, 100))
            /\ Cardinality(up) <= 1
            /\ \A i \in up :
                  /\ Eval.insights[i].severity = "risk"
                  /\ Eval.insights[i].detail = <<MathRound(Times(tr, Num(100)))>>
            /\ down # {} <=> Lt(tr, Lit(-15, 100))
            /\ Cardinality(down) <= 1
            /\ \A i \in down : Eval.insights[i].severity = "info"
            /\ ~(up # {} /\ down # {})
            /\ Cardinality({i \in 1..Len(Eval.insights) :
                               Eval.insights[i].severity = "risk"}) = Cardinality(up)

\* the scenario of the specification: a trend of 0.20 gives one risk entry with 20
C9_Witness ==
    /\ EvalOk
    /\ Kpis.monthlySpendTrendPct = Lit(2, 10)
    /\ \E i \in 1..Len(Eval.insights) :
          /\ Eval.insights[i].severity = "risk"
          /\ Eval.insights[i].title = "Spending is trending up"
          /\ Eval.insights[i].detail = <<Num(20)>>

\* a trend of exactly 0.15 gives neither entry
C9_WitnessBoundary ==
    /\ EvalOk
    /\ Kpis.monthlySpendTrendPct = Lit(15, 100)
    /\ Count(Eval.insights, "Spending is trending up") = 0
    /\ Count(Eval.insights, "Spending is trending down") = 0

Titles(insights) == [i \in 1..Len(insights) |-> insights[i].title]

When(cond, title) == IF cond THEN <<title>> ELSE <<>>

\* C10: with status "ok" the insights are exactly the rules that apply, in the order
\* income not detected, spending trend, upcoming bills, concentration; at most four;
\* without a spending summary the first and the last never appear.
C10_InsightsInOrder ==
    EvalOk =>
        LET tr == Kpis.monthlySpendTrendPct
            share == Eval.metrics.categoryConcentrationTop1Pct
            hasSummary == spendingSummary # Null
            rule1 == /\ Kpis.savingsRate = Zero
                     /\ hasSummary
                     /\ Val(spendingSummary).income = Zero
                     /\ Gt(Val(spendingSummary).spend, Zero)
            rule4 == ~IsNull(share) /\ Gt(Val(share), Lit(1, 2))
        IN  /\ Titles(Eval.insights) =
                   When(rule1, "Income not detected")
                   \o When(Gt(tr, Lit(15, 100)), "Spending is trending up")
                   \o When(~Gt(tr, Lit(15, 100)) /\ Lt(tr, Lit(-15, 100)),
                           "Spending is trending down")
                   \o When(Gt(Kpis.upcomingBills, Zero), "Upcoming bills estimate")
                   \o When(rule4, "Spending is concentrated")
            /\ Len(Eval.insights) <= 4
            /\ ~hasSummary =>
                  /\ Count(Eval.insights, "Income not detected") = 0
                  /\ Count(Eval.insights, "Spending is concentrated") = 0

\* all four rules apply at once
C10_Witness ==
    /\ EvalOk
    /\ Titles(Eval.insights) =
           <<"Income not detected", "Spending is trending up",
             "Upcoming bills estimate", "Spending is concentrated">>

\* rules 2 and 3 apply and there is no spending summary
C10_WitnessNoSummary ==
    /\ EvalOk /\ spendingSummary = Null
    /\ Titles(Eval.insights) = <<"Spending is trending down", "Upcoming bills estimate">>

\* ------------------------------------------------------ claims on summarize
Summarized == spendingSummary # Null /\ evaluation = Null /\ snapshot = Null
Summ == Val(spendingSummary)

IsExpense(t) == Lt(t.amount, Zero)
IsIncome(t) == ~IsExpense(t)

\* the amounts added up in list order, as the program adds numbers
RECURSIVE RunningTotals(_)
RunningTotals(nums) ==
    IF nums = <<>> THEN <<Zero>>
    ELSE LET r == RunningTotals(SubSeq(nums, 1, Len(nums) - 1))
         IN  Append(r, Plus(r[Len(r)], nums[Len(nums)]))

Total(nums) == RunningTotals(nums)[Len(nums) + 1]

Magnitudes(txs) == [i \in 1..Len(txs) |-> QAbs(txs[i].amount)]

\* the label an expense is filed under: trimmed, "Uncategorized" when null or blank
LabelOf(t) ==
    IF IsNull(t.category) THEN Uncategorized
    ELSE IF \A k \in 1..Len(Val(t.category)) : Val(t.category)[k] = " " THEN Uncategorized
    ELSE trim(Val(t.category))

ExpenseLabels == {LabelOf(transactions[i]) : i \in {j \in 1..Len(transactions) :
                                                       IsExpense(transactions[j])}}

\* C6: income is the sum of the amounts >= 0, spend the sum of the magnitudes of the
\* amounts < 0, net is income - spend, and every category of topCategories is the
\* label of an expense: an amount >= 0 (0 included) adds none.
C6_IncomeSpendNet ==
    Summarized =>
        /\ Summ.income = Total(Magnitudes(SelectSeq(transactions, IsIncome)))
        /\ Summ.spend = Total(Magnitudes(SelectSeq(transactions, IsExpense)))
        /\ Summ.net = Minus(Summ.income, Summ.spend)
        /\ \A i \in 1..Len(Summ.topCategories) :
              Summ.topCategories[i].category \in ExpenseLabels

\* income, a zero amount and an expense in one list; only the expense is filed
C6_Witness ==
    /\ Summarized
    /\ \E i \in 1..Len(transactions) : transactions[i].amount = Zero
    /\ Gt(Summ.income, Zero) /\ Gt(Summ.spend, Zero)
    /\ Len(Summ.topCategories) = 1

FirstSeen(label) ==
    CHOOSE i \in 1..Len(transactions) :
        /\ IsExpense(transactions[i]) /\ LabelOf(transactions[i]) = label
        /\ \A j \in 1..(i - 1) :
              ~(IsExpense(transactions[j]) /\ LabelOf(transactions[j]) = label)

IsOfLabel(label, t) == IsExpense(t) /\ LabelOf(t) = label

LabelTotal(label) ==
    LET idx == {i \in 1..Len(transactions) : IsOfLabel(label, transactions[i])}
        RECURSIVE upTo(_)
        upTo(k) == IF k = 0 THEN Zero
                   ELSE IF k \in idx THEN Plus(upTo(k - 1), QAbs(transactions[k].amount))
                   ELSE upTo(k - 1)
    IN  upTo(Len(transactions))

\* label a ranks before label b: larger total, or equal total and seen first
RanksBefore(a, b) ==
    \/ Gt(LabelTotal(a), LabelTotal(b))
    \/ LabelTotal(a) = LabelTotal(b) /\ FirstSeen(a) < FirstSeen(b)

\* C7: topCategories has at most 8 entries, one per distinct trimmed expense label
\* (null and blank under "Uncategorized"), each with the total magnitude of its
\* label, largest first, equal totals in order of first appearance; with more than 8
\* labels the entries are the first 8 of that order.
C7_TopCategories ==
    Summarized =>
        LET top == Summ.topCategories
            n == Cardinality(ExpenseLabels)
        IN  /\ Len(top) = (IF n < 8 THEN n ELSE 8)
            /\ \A i \in 1..Len(top) :
                  /\ top[i].category \in ExpenseLabels
                  /\ top[i].amount = LabelTotal(top[i].category)
            /\ \A i, j \in 1..Len(top) :
                  i < j => RanksBefore(top[i].category, top[j].category)
            /\ \A l \in ExpenseLabels :
                  (\A i \in 1..Len(top) : top[i].category # l) =>
                      \A i \in 1..Len(top) : RanksBefore(top[i].category, l)

\* nine labels with tied totals: eight are kept
C7_Witness ==
    /\ Summarized
    /\ Cardinality(ExpenseLabels) > 8
    /\ Len(Summ.topCategories) = 8
    /\ \E i \in 1..7 : Summ.topCategories[i].amount = Summ.topCategories[i + 1].amount

\* a null and a blank label merged, two spellings of one label merged
C7_WitnessMerged ==
    /\ Summarized
    /\ Len(transactions) = 4
    /\ \A i \in 1..4 : IsExpense(transactions[i])
    /\ Len(Summ.topCategories) = 2
    /\ Summ.topCategories[1].category = Uncategorized
    /\ Summ.topCategories[1].amount = Num(6)
    /\ Summ.topCategories[2].amount = Num(3)
\* ------------------------------------------------- claims on repeated builds
Repeated == Built /\ again # Null
Again == Val(again)

\* C11: a repeated build with the same period, accounts, transactions and the same
\* explicit now returns the snapshot of the first call in every field, whatever
\* the clock reads and whatever builds ran in between.
C11_BuildDeterministic ==
    (Repeated /\ now # Null /\ Again.period = period) => Again.snapshot = Snap

\* the same call repeated a day later on rows that fall in the chart window
C11_Witness ==
    /\ Repeated /\ now # Null /\ Again.period = period
    /\ Again.clock = LastClock
    /\ Len(transactions) = MaxTx
    /\ some(Snap.series.total)
    /\ Again.snapshot = Snap

\* C20 as stated: with accounts, transactions and now fixed, every field of the kpis
\* block is the same for all periods.
C20_KpisSameForAllPeriods ==
    (Repeated /\ now # Null) => Again.snapshot.kpis = Snap.kpis

KpiFieldsButBills ==
    {"currentBalance", "currentBalanceTrendPct", "monthlySpend", "monthlySpendTrendPct",
     "savingsRate", "savingsRateTrendPctPoints", "upcomingBillsDueInDays"}

HalfOfSubscriptions(s) == Over(Total(s.series.subscriptions), Num(2))

\* C20 amended: every field of the kpis block except upcomingBills is the same for
\* all periods; upcomingBills is half the sum of the subscriptions series of the
\* snapshot it belongs to, and so follows the period's chart.
C20_KpisSameButUpcomingBills ==
    (Repeated /\ now # Null) =>
        /\ DOMAIN Again.snapshot.kpis = DOMAIN Snap.kpis
        /\ \A f \in KpiFieldsButBills : Again.snapshot.kpis[f] = Snap.kpis[f]
        /\ Snap.kpis.upcomingBills = HalfOfSubscriptions(Snap)
        /\ Again.snapshot.kpis.upcomingBills = HalfOfSubscriptions(Again.snapshot)

\* two periods, the same rows: the KPI windows hold spend and income, and the two
\* upcomingBills differ
C20_Witness ==
    /\ Repeated /\ now # Null /\ Again.period # period
    /\ Gt(Snap.kpis.monthlySpend, Zero) /\ Gt(Snap.kpis.savingsRate, Zero)
    /\ Again.snapshot.kpis.upcomingBills # Snap.kpis.upcomingBills
\* ----------------------------------------------------- claims on the frame
\* C12: build, summarize and evaluate leave their inputs as they were: the caller's
\* transaction list keeps its elements, their order and their fields (the sort for
\* recentTransactions works on a copy), and the accounts, a snapshot passed in and a
\* spending summary passed in are not modified.
C12_InputsUnchanged ==
    [][/\ transactions' = transactions
       /\ accounts' = accounts
       /\ period' = period
       /\ now' = now
       /\ (snapshot # Null => snapshot' = snapshot)
       /\ (spendingSummary # Null => spendingSummary' = spendingSummary)]_vars

\* all three ran on rows held oldest first, which the sort had to reorder
C12_Witness ==
    /\ Built /\ spendingSummary # Null /\ Evaluated /\ plainEvaluation # Null
    /\ Len(transactions) = MaxTx - 1
    /\ ~IsNewestFirst(transactions)
    /\ Snap.recentTransactions[1].id # transactions[1].id
    /\ Len(accounts) = 2
\* ------------------------------------------------- claims on the chart shape
\* the bucket count the contract gives for a period
BucketCount(p) ==
    CASE p = "1W" -> 7 [] p = "1M" -> 12 [] p = "3M" -> 18 [] p = "1Y" -> 12 [] p = "ALL" -> 22

HasBucketLengths(s) ==
    LET n == BucketCount(s.period)
    IN  /\ Len(s.labels) = n
        /\ Len(s.series.total) = n
        /\ Len(s.series.essentials) = n
        /\ Len(s.series.leisure) = n
        /\ Len(s.series.subscriptions) = n
        /\ Len(s.points) = n
        /\ \A i \in 1..n : s.points[i] = s.series.total[i]

\* C13: in the snapshot of build and in the snapshot of buildEmpty, for every period,
\* labels and the four series have as many elements as the period has buckets
\* (1W 7, 1M 12, 3M 18, 1Y 12, ALL 22) and points equals series.total element by
\* element.
C13_BucketLengths ==
    /\ Built => (Snap.period = period /\ HasBucketLengths(Snap))
    /\ emptySnapshot # Null => (EmptySnap.period = period /\ HasBucketLengths(EmptySnap))

\* both builders ran for the year, with spend on the chart
C13_Witness ==
    /\ BothBuilt /\ period = "1Y"
    /\ some(Snap.series.total)
    /\ Snap.labels[12] = "Dec"
    /\ EmptySnap.labels = Snap.labels
\* ------------------------------------------------------ claims on the chat
SignedOut == chat.pc # "none" /\ IsNull(chat.userId)

FinanceQueries ==
    {"getFinanceSnapshotForUser", "getRecentTransactionsForUser", "getSpendingSummaryForUser"}

\* C14: a signed-out chat request never reads finance data: no snapshot, recent
\* transaction or spending summary query runs and no finance context is in the Hugging
\* Face prompt; no tools are offered to OpenAI and no tool call the model emits is run;
\* no chat session or message is created or read.
C14_SignedOutReadsNothing ==
    SignedOut =>
        /\ chat.queries \cap FinanceQueries = {}
        /\ chat.queries = {}
        /\ (chat.prompt # Null => Val(chat.prompt).financeContext = Null)
        /\ chat.toolsOffered = Null
        /\ chat.executed = <<>>

\* a signed-out finance question answered by a model that emits two tool calls
C14_Witness ==
    /\ SignedOut /\ chat.pc = "done" /\ chat.provider = "openai"
    /\ looksLikeFinanceQuestion(lastUserContent(chat.messages))
    /\ Len(chat.emitted) = MaxToolCalls
    /\ \A k \in 1..Len(chat.emitted) : chat.emitted[k] \in Tools
    /\ ~IsNull(chat.sessionId)
\* ------------------------------------------------- claims on the windows
\* the lookback of a period's chart, in days
WindowDays(p) ==
    CASE p = "1W" -> 7 [] p = "1M" -> 30 [] p = "3M" -> 90 [] p = "1Y" -> 365 [] p = "ALL" -> 730

WindowStart == NowMs - WindowDays(period) * DayMs

DatedIn(t, from, to) == from <= t.date /\ t.date < to

OnChart(t) == IsExpense(t) /\ DatedIn(t, WindowStart, NowMs)

\* floor((ts - windowStart) / bucketWidth), clamped to [0, bucketCount - 1]
ChartIndex(t) ==
    LET n == BucketCount(period)
        raw == ((t.date - WindowStart) * n) \div (NowMs - WindowStart)
    IN  IF raw < 0 THEN 0 ELSE IF raw > n - 1 THEN n - 1 ELSE raw

InBucket(t, i) == OnChart(t) /\ ChartIndex(t) = i

\* the rounded sum of the magnitudes of the rows that pass a test, in list order
RoundedSpend(txs) == MathRound(Total(Magnitudes(txs)))

\* C15: a transaction adds to the chart exactly when its amount is below 0 and its
\* date is in [now - window, now); it adds its magnitude to the one bucket with index
\* floor((ts - windowStart) / bucketWidth) clamped to [0, bucketCount - 1], so of two
\* charted expenses the later one is never in an earlier bucket; income and rows
\* outside the window add to no bucket.
C15_ChartBuckets ==
    Built =>
        /\ \A i \in 0..(BucketCount(period) - 1) :
               Snap.series.total[i + 1] =
                   RoundedSpend(SelectSeq(transactions, LAMBDA t : InBucket(t, i)))
        /\ \A j, k \in 1..Len(transactions) :
               (OnChart(transactions[j]) /\ OnChart(transactions[k])
                /\ transactions[j].date <= transactions[k].date) =>
                   bucketIndex(transactions[j].date, WindowStart, NowMs, BucketCount(period))
                   <= bucketIndex(transactions[k].date, WindowStart, NowMs,
                                  BucketCount(period))

\* a week's chart with a row at each end of the window, one just before it, one at
\* now, and income
C15_Witness ==
    /\ Built /\ period = "1W"
    /\ {transactions[k].id : k \in 1..Len(transactions)} = {"w2", "w3", "w4", "w5"}
    /\ Snap.series.total[1] = Num(4)
    /\ Snap.series.total[7] = Num(3)
    /\ \A i \in 2..6 : Snap.series.total[i] = Zero

\* the class of a category label: the first rule whose keyword the upper-cased label
\* contains
SubscriptionWords == {KwSubscript, KwService, KwStream}
LeisureWords == {KwEntertain, KwTravel, KwTransport, KwRecreation}

HasWord(label, words) ==
    LET text == toUpperCase(IF IsNull(label) THEN <<>> ELSE Val(label))
    IN  \E w \in words : includes(text, w)

ClassOf(label) ==
    IF HasWord(label, SubscriptionWords) THEN "Subscriptions"
    ELSE IF HasWord(label, LeisureWords) THEN "Leisure"
    ELSE "Essentials"

SeriesOfClass(s, c) ==
    CASE c = "Essentials" -> s.series.essentials
      [] c = "Leisure" -> s.series.leisure
      [] c = "Subscriptions" -> s.series.subscriptions

RowOfId(id) == transactions[CHOOSE k \in 1..Len(transactions) : transactions[k].id = id]

\* C16: every expense is filed under exactly one of Essentials, Leisure, Subscriptions
\* by the ordered, case-insensitive keyword test of its label: SUBSCRIPT, SERVICE or
\* STREAM give Subscriptions even beside a Leisure keyword; else ENTERTAIN, TRAVEL,
\* TRANSPORT or RECREATION give Leisure; every other label, null and empty included,
\* gives Essentials.
C16_CategoryClasses ==
    Built =>
        /\ \A c \in {"Essentials", "Leisure", "Subscriptions"} :
               \A i \in 0..(BucketCount(period) - 1) :
                   SeriesOfClass(Snap, c)[i + 1] =
                       RoundedSpend(SelectSeq(transactions,
                           LAMBDA t : InBucket(t, i) /\ ClassOf(t.category) = c))
        /\ \A k \in 1..Len(Snap.recentTransactions) :
               LET r == Snap.recentTransactions[k]
                   t == RowOfId(r.id)
               IN  r.category = IF IsExpense(t) THEN Some(ClassOf(t.category)) ELSE Null

\* a label with a keyword of both classes, a lower-case keyword, a null label and an
\* empty label, all charted
C16_Witness ==
    /\ Built /\ period = "3M"
    /\ {transactions[k].id : k \in 1..Len(transactions)} = {"w3", "w5", "w6", "w8"}
    /\ Snap.series.subscriptions[18] = Num(3)
    /\ Snap.series.leisure[18] = Zero
    /\ some(Snap.series.leisure)
    /\ some(Snap.series.essentials)
    /\ \E k \in 1..4 : /\ Snap.recentTransactions[k].id = "w3"
                       /\ Snap.recentTransactions[k].category = Some("Subscriptions")
    /\ \E k \in 1..4 : /\ Snap.recentTransactions[k].id = "w8"
                       /\ Snap.recentTransactions[k].category = Some("Essentials")

\* ----------------------------------------------------- claims on the KPIs
\* x held between lo and hi
Clamped(x, lo, hi) == IF Lt(x, lo) THEN lo ELSE IF Gt(x, hi) THEN hi ELSE x

Days30 == 30 * DayMs
Days7 == 7 * DayMs

Amounts(txs) == [i \in 1..Len(txs) |-> txs[i].amount]

\* spend and income of the rows dated in [from, to), added in list order
SpendIn(from, to) ==
    Total(Magnitudes(SelectSeq(transactions,
        LAMBDA t : IsExpense(t) /\ DatedIn(t, from, to))))
IncomeIn(from, to) ==
    Total(Amounts(SelectSeq(transactions, LAMBDA t : IsIncome(t) /\ DatedIn(t, from, to))))

ThisSpend == SpendIn(NowMs - Days30, NowMs)
PrevSpend == SpendIn(NowMs - 2 * Days30, NowMs - Days30)
ThisIncome == IncomeIn(NowMs - Days30, NowMs)
PrevIncome == IncomeIn(NowMs - 2 * Days30, NowMs - Days30)

\* C17: monthlySpend is the sum of the magnitudes of the expenses dated in
\* [now - 30d, now); monthlySpendTrendPct is
\* Clamped((this30.spend - prev30.spend) / prev30.spend, -0.9, 0.9) with prev30 over
\* [now - 60d, now - 30d), and 0 when prev30.spend is 0 whatever this30.spend is.
C17_MonthlySpend ==
    Built =>
        /\ Kpis.monthlySpend = ThisSpend
        /\ Kpis.monthlySpendTrendPct =
               IF PrevSpend = Zero THEN Zero
               ELSE Clamped(Over(Minus(ThisSpend, PrevSpend), PrevSpend),
                          Lit(-9, 10), Lit(9, 10))

\* expenses at now, at both edges of the trailing window and at the far edge of the
\* prior one
C17_Witness ==
    /\ Built
    /\ {transactions[k].id : k \in 1..Len(transactions)} = {"w2", "w8", "w9", "w11"}
    /\ Kpis.monthlySpend = Num(6)
    /\ PrevSpend = Lit(550, 100)
    /\ Gt(Kpis.monthlySpendTrendPct, Zero) /\ Lt(Kpis.monthlySpendTrendPct, Lit(9, 10))

RatioOf(income, spend) ==
    IF income = Zero THEN Zero
    ELSE Clamped(Over(Minus(income, spend), income), Zero, Lit(95, 100))

\* C18: savingsRate is Clamped((income - spend) / income, 0, 0.95) over the trailing 30
\* days and 0 when that income is 0, so it is 0 whenever spend >= income;
\* savingsRateTrendPctPoints is Clamped((savingsRate - prevSavingsRate) * 100, -50, 50),
\* prevSavingsRate being the same clamped ratio over the prior 30 days, 0 when the
\* prior income is 0.
C18_SavingsRate ==
    Built =>
        /\ Kpis.savingsRate = RatioOf(ThisIncome, ThisSpend)
        /\ Ge(ThisSpend, ThisIncome) => Kpis.savingsRate = Zero
        /\ Kpis.savingsRateTrendPctPoints =
               Clamped(Times(Minus(RatioOf(ThisIncome, ThisSpend),
                                 RatioOf(PrevIncome, PrevSpend)), Num(100)),
                     Num(-50), Num(50))

\* spend above the income of the trailing window (rate 0), income without spend in
\* the prior one (rate capped), and a fall of more than 50 points cut off
C18_Witness ==
    /\ Built
    /\ {transactions[k].id : k \in 1..Len(transactions)} = {"w5", "w7", "w10", "w12"}
    /\ Gt(ThisSpend, ThisIncome) /\ Gt(ThisIncome, Zero)
    /\ Kpis.savingsRate = Zero
    /\ RatioOf(PrevIncome, PrevSpend) = Lit(95, 100)
    /\ Kpis.savingsRateTrendPctPoints = Num(-50)

BalanceOf(a) == IF IsNull(a.currentBalance) THEN Zero ELSE Val(a.currentBalance)
Balances == [i \in 1..Len(accounts) |-> BalanceOf(accounts[i])]

\* the net signed amount of the rows of the trailing 7 days ending at now
Net7 ==
    Total(Amounts(SelectSeq(transactions,
        LAMBDA t : NowMs - Days7 <= t.date /\ t.date <= NowMs)))

\* C19: currentBalance is the sum of the accounts' currentBalance, a missing one
\* counted as 0; currentBalanceTrendPct is
\* Clamped((currentBalance - priorBalance) / |priorBalance|, -0.5, 0.5) with priorBalance
\* = currentBalance minus the net signed amount of the transactions dated in the 7
\* days ending at now (a transaction dated after now is not in that window), and 0
\* when priorBalance is 0.
C19_BalanceTrend ==
    Built =>
        LET priorBalance == Minus(Total(Balances), Net7)
        IN  /\ Kpis.currentBalance = Total(Balances)
            /\ Kpis.currentBalanceTrendPct =
                   IF priorBalance = Zero THEN Zero
                   ELSE Clamped(Over(Minus(Total(Balances), priorBalance),
                                   QAbs(priorBalance)),
                              Lit(-1, 2), Lit(1, 2))

\* ------------------------------------------------- claims on upcomingBills
ChartedSubscriptions ==
    SelectSeq(transactions, LAMBDA t : OnChart(t) /\ ClassOf(t.category) = "Subscriptions")

\* the rounded subscriptions spend of bucket i
SubscriptionsBucket(i) ==
    RoundedSpend(SelectSeq(transactions,
        LAMBDA t : InBucket(t, i) /\ ClassOf(t.category) = "Subscriptions"))

BillsAreHalfOfBuckets ==
    /\ Kpis.upcomingBills = Over(Total(Snap.series.subscriptions), Num(2))
    /\ Ge(Kpis.upcomingBills, Zero)
    /\ Kpis.upcomingBillsDueInDays = Num(7)

\* C21 as stated: upcomingBills is half the sum of the rounded subscriptions buckets,
\* never negative, 0 exactly when no charted expense is classified Subscriptions, and
\* upcomingBillsDueInDays is 7 for every input.
C21_UpcomingBills ==
    Built =>
        /\ BillsAreHalfOfBuckets
        /\ (Kpis.upcomingBills = Zero <=> ChartedSubscriptions = <<>>)

\* C21 amended: upcomingBills is half the sum of the rounded subscriptions buckets,
\* never negative, 0 when no charted expense is classified Subscriptions and, beyond
\* that, exactly when the subscriptions spend of every bucket rounds to 0;
\* upcomingBillsDueInDays is 7 for every input.
C21_UpcomingBillsOfRoundedBuckets ==
    Built =>
        /\ BillsAreHalfOfBuckets
        /\ ChartedSubscriptions = <<>> => Kpis.upcomingBills = Zero
        /\ Kpis.upcomingBills = Zero <=>
               \A i \in 0..(BucketCount(period) - 1) : SubscriptionsBucket(i) = Zero

\* a charted subscription charge of 0.25 beside other spend: its bucket rounds to 0
C21_Witness ==
    /\ Built /\ period = "1M"
    /\ {transactions[k].id : k \in 1..Len(transactions)} = {"w13", "w5", "w9", "w4"}
    /\ Len(ChartedSubscriptions) = 1
    /\ Kpis.upcomingBills = Zero
    /\ Kpis.upcomingBillsDueInDays = Num(7)

\* ------------------------------------------------- claims on the currency
Letters == {Upper[k] : k \in 1..Len(Upper)}

\* the code of account k after normalisation: trimmed, upper-cased, kept only if it is
\* exactly three letters A-Z
NormalCode(k) ==
    LET raw == accounts[k].currencyCode
        c == toUpperCase(trim(IF IsNull(raw) THEN <<>> ELSE Val(raw)))
    IN  IF Len(c) = 3 /\ \A j \in 1..3 : c[j] \in Letters THEN Some(c) ELSE Null

ValidAt == {k \in 1..Len(accounts) : NormalCode(k) # Null}
TimesSeen(k) == Cardinality({j \in ValidAt : NormalCode(j) = NormalCode(k)})
FirstSeenAt(k) == CHOOSE j \in ValidAt : NormalCode(j) = NormalCode(k)
                                        /\ \A i \in ValidAt : NormalCode(i) = NormalCode(k) => j <= i

\* C22: currencyCode is the code most frequent among the accounts' normalised codes,
\* of several codes with the highest count the one seen first in the list, and absent
\* when no account has a valid code.
C22_CurrencyCode ==
    Built =>
        IF ValidAt = {} THEN Snap.currencyCode = Null
        ELSE \E k \in ValidAt :
                /\ Snap.currencyCode = NormalCode(k)
                /\ \A j \in ValidAt : TimesSeen(j) <= TimesSeen(k)
                /\ \A j \in ValidAt :
                       TimesSeen(j) = TimesSeen(k) => FirstSeenAt(k) <= FirstSeenAt(j)

\* two codes seen twice each; the winner is seen first but reaches two last
C22_Witness ==
    /\ Built /\ Len(accounts) = 4
    /\ NormalCode(1) = NormalCode(4) /\ NormalCode(2) = NormalCode(3)
    /\ NormalCode(1) # NormalCode(2)
    /\ accounts[1].currencyCode # accounts[4].currencyCode
    /\ 2 \in ValidAt
    /\ Snap.currencyCode = NormalCode(1)
    /\ Snap.currencyCode = Some(<<"U","S","D">>)

\* ------------------------------------------- claims on recentTransactions
\* how many rows come before row k when the list is put newest first, rows of one
\* date staying in input order
RowsBefore(k) ==
    Cardinality({j \in 1..Len(transactions) :
                    \/ transactions[j].date > transactions[k].date
                    \/ (transactions[j].date = transactions[k].date /\ j < k)})

RowAtPlace(i) == transactions[CHOOSE k \in 1..Len(transactions) : RowsBefore(k) = i - 1]

\* C23: recentTransactions holds min(4, number of transactions) entries: the most
\* recent rows of the whole list, in or out of the chart window, newest first, rows
\* of one date in input order; an entry has a category exactly when its amount < 0.
C23_RecentTransactions ==
    Built =>
        LET recent == Snap.recentTransactions
            n == Len(transactions)
        IN  /\ Len(recent) = IF n < 4 THEN n ELSE 4
            /\ \A i \in 1..Len(recent) :
                   /\ recent[i].id = RowAtPlace(i).id
                   /\ recent[i].amount = RowAtPlace(i).amount
                   /\ recent[i].dateISO = toISOString(RowAtPlace(i).date)
                   /\ recent[i].category # Null <=> Lt(RowAtPlace(i).amount, Zero)

\* six rows held oldest first within each date reversed: four are kept, one of them
\* outside the chart window, and the zero amount has no category
C23_Witness ==
    /\ Built /\ Len(transactions) = 6
    /\ transactions[1].id = "r6" /\ transactions[2].id = "r5"
    /\ [i \in 1..4 |-> Snap.recentTransactions[i].id] = <<"r3", "r1", "r2", "r5">>
    /\ Snap.recentTransactions[1].category = Null
    /\ Snap.recentTransactions[2].category = Some("Leisure")
    /\ Snap.recentTransactions[3].category = Null
    /\ some(Snap.series.total)

\* ------------------------------------------------- claims on top1Share
\* the share the contract gives for a spending summary, absent or present
ShareOf(summary) ==
    IF summary # Null /\ Gt(Val(summary).spend, Zero) /\ Val(summary).topCategories # <<>>
    THEN Some(Clamped(Over(Val(summary).topCategories[1].amount, Val(summary).spend),
                      Zero, Num(1)))
    ELSE Null

HasSharePart(e) == \E k \in 1..Len(e.summary) : e.summary[k][1] = "Top category share"

\* C24: in status "ok" top1Share is present exactly when a spending summary is
\* supplied with spend > 0 and a non-empty topCategories; it is then
\* topCategories[0].amount / spend clamped to [0, 1]; categoryConcentrationTop1Pct
\* carries it, and null when it is absent.
C24_Top1Share ==
    /\ EvalOk =>
           /\ Eval.metrics.categoryConcentrationTop1Pct = ShareOf(spendingSummary)
           /\ HasSharePart(Eval) <=> ShareOf(spendingSummary) # Null
    /\ (plainEvaluation # Null /\ Val(plainEvaluation).status = "ok") =>
           /\ Val(plainEvaluation).metrics.categoryConcentrationTop1Pct = Null
           /\ ~HasSharePart(Val(plainEvaluation))

\* a summary whose top category is above its spend: the share is cut to 1; the
\* evaluation without a summary has none
C24_Witness ==
    /\ EvalOk /\ plainEvaluation # Null
    /\ spendingSummary # Null /\ Val(spendingSummary).topCategories # <<>>
    /\ Gt(Val(spendingSummary).topCategories[1].amount, Val(spendingSummary).spend)
    /\ Eval.metrics.categoryConcentrationTop1Pct = Some(Num(1))
    /\ Val(plainEvaluation).metrics.categoryConcentrationTop1Pct = Null

\* ---------------------------------------------------------------- C25
\* the sum of the numbers as real numbers
RECURSIVE ExactSum(_)
ExactSum(nums) ==
    IF nums = <<>> THEN Zero
    ELSE QAdd(ExactSum(SubSeq(nums, 1, Len(nums) - 1)), nums[Len(nums)])

PlainEvaluated == Built /\ plainEvaluation # Null
PlainEval == Val(plainEvaluation)
IsNoData(e) == e.status = "no_data" /\ e.score = Null

\* C25, first part: evaluate applied to buildEmpty(period), and to a build
\* result of no accounts and no transactions, is no_data with score null
NoDataOfEmptyBuilders ==
    /\ evaluation # Null => IsNoData(Val(evaluation))
    /\ (PlainEvaluated /\ accounts = <<>> /\ transactions = <<>>) => IsNoData(PlainEval)

\* C25, last part: a build result with at least one transaction is never no_data
DataOfAnyTransaction ==
    (PlainEvaluated /\ transactions # <<>>) => PlainEval.status # "no_data"

\* C25, middle part read on the program's own sum: no transaction and a
\* currentBalance of 0 is no_data
NoDataOfZeroCurrentBalance ==
    (PlainEvaluated /\ transactions = <<>> /\ Kpis.currentBalance = Zero)
        => IsNoData(PlainEval)

\* C25: for every period, evaluate applied to buildEmpty(period) and to
\* build(period, [], [], now) returns status "no_data" with score null; a build
\* result whose transaction list is empty and whose account balances sum to 0
\* is always evaluated as no_data; a build result with at least one
\* transaction is never evaluated as no_data.
C25_NoData ==
    /\ NoDataOfEmptyBuilders
    /\ (PlainEvaluated /\ transactions = <<>> /\ ExactSum(Balances) = Zero)
           => IsNoData(PlainEval)
    /\ DataOfAnyTransaction

\* what holds of C25: its first and last parts, and the middle part when the
\* sum of the balances is the one the program computes
C25_NoDataOfComputedBalance ==
    /\ NoDataOfEmptyBuilders
    /\ NoDataOfZeroCurrentBalance
    /\ DataOfAnyTransaction

\* four balances that cancel and no transaction, evaluated as ok
C25_Witness ==
    /\ PlainEvaluated
    /\ transactions = <<>>
    /\ Len(accounts) = 4
    /\ ExactSum(Balances) = Zero
    /\ Kpis.currentBalance # Zero
    /\ PlainEval.status = "ok"

\* ---------------------------------------------------------------- C26
WholeAmounts == \A k \in 1..Len(transactions) : IsInt(transactions[k].amount)

\* the magnitude of the expenses dated in [now - window, now) that pass a test
WindowSpend(Test(_)) ==
    ExactSum(Magnitudes(SelectSeq(transactions, LAMBDA t : OnChart(t) /\ Test(t))))

\* C26: when all amounts are whole currency units, the sum of series.total over
\* all buckets equals the total magnitude of the expenses dated in
\* [now - window, now), each sub-series sums to the in-window spend of its
\* class, and for period 1M the sum of points equals kpis.monthlySpend.
C26_BucketsConserveSpend ==
    (Built /\ WholeAmounts) =>
        /\ ExactSum(Snap.series.total) = WindowSpend(LAMBDA t : TRUE)
        /\ \A c \in {"Essentials", "Leisure", "Subscriptions"} :
               ExactSum(SeriesOfClass(Snap, c)) =
                   WindowSpend(LAMBDA t : ClassOf(t.category) = c)
        /\ period = "1M" => ExactSum(Snap.points) = Kpis.monthlySpend

\* a month's chart of two expenses of one bucket, one at the window's start and
\* one just before it: 11 of the 18 are charted, 3 + 2 + 6 by class
C26_Witness ==
    /\ Built /\ WholeAmounts /\ period = "1M"
    /\ {transactions[k].id : k \in 1..Len(transactions)} = {"h1", "h2", "h5", "h6"}
    /\ ExactSum(Snap.points) = Num(11)
    /\ Kpis.monthlySpend = Num(11)
    /\ ExactSum(Snap.series.subscriptions) = Num(3)
    /\ ExactSum(Snap.series.leisure) = Num(2)
    /\ ExactSum(Snap.series.essentials) = Num(6)
    /\ \E i \in 1..Len(Snap.points) : Snap.points[i] = Num(5)

\* ---------------------------------------------------------------- C27
Called == memory.last # Null
Call == Val(memory.last)

\* the session sid is a stored row of user u
Owns(sessions, sid, u) == sid \in 1..Len(sessions) /\ sessions[sid] = u

\* the first n stored messages of session sid, as role and content
StoredOf(sid, n) ==
    LET at == {k \in 1..Len(memory.messages) : memory.messages[k].sessionId = sid}
        first == {k \in at : Cardinality({j \in at : j < k}) < n}
        place(i) == CHOOSE k \in first : Cardinality({j \in first : j < k}) = i - 1
    IN  [i \in 1..Cardinality(first) |->
            [role |-> memory.messages[place(i)].role,
             content |-> memory.messages[place(i)].content]]

\* the most messages a history call returns: the limit asked for, 40 when none
\* is, held between 1 and 200
HistoryCap(limit) ==
    LET n == IF limit = Null THEN 40 ELSE Val(limit)
    IN  IF n < 1 THEN 1 ELSE IF n > 200 THEN 200 ELSE n

\* the sessionId a call returned for the one it was sent: the sent one when the
\* caller owns it, else a new session of the caller
ReturnsOwnSession(returned) ==
    IF ~IsNull(Call.sessionId) /\ Owns(Call.before, Val(Call.sessionId), Call.userId)
    THEN returned = Val(Call.sessionId) /\ memory.sessions = Call.before
    ELSE /\ returned \notin 1..Len(Call.before)
         /\ memory.sessions = Append(Call.before, Call.userId)
         /\ Owns(memory.sessions, returned, Call.userId)

\* C27: getOrCreateChatSession returns the supplied sessionId only when that
\* session belongs to the calling userId and otherwise creates and returns a new
\* session owned by the caller; getChatHistory returns an empty list and
\* appendChatMessages writes nothing when the session does not belong to the
\* caller; so after any sequence of operations no user has read messages from,
\* or appended messages to, a session owned by another user.
C27_SessionsIsolated ==
    memory.kind = "rows" =>
        /\ \A k \in 1..Len(memory.messages) :
               Owns(memory.sessions, memory.messages[k].sessionId, memory.messages[k].by)
        /\ (Called /\ Call.op = "getOrCreateChatSession") =>
               ReturnsOwnSession(Call.returned)
        /\ (Called /\ Call.op = "getChatHistory") =>
               Call.returned =
                   IF Owns(memory.sessions, Val(Call.sessionId), Call.userId)
                   THEN StoredOf(Val(Call.sessionId), HistoryCap(Call.limit)) ELSE <<>>
        /\ (Called /\ Call.op = "appendChatMessages") =>
               /\ memory.sessions = Call.before
               /\ Len(memory.messages) = Call.rowsBefore +
                      (IF Owns(memory.sessions, Val(Call.sessionId), Call.userId)
                       THEN Len(Call.returned) ELSE 0)
               /\ \A k \in (Call.rowsBefore + 1)..Len(memory.messages) :
                      /\ memory.messages[k].sessionId = Val(Call.sessionId)
                      /\ memory.messages[k].by = Call.userId
        /\ (Called /\ Call.op = "POST /api/chat/session") =>
               /\ ReturnsOwnSession(Call.returned.sessionId)
               /\ Call.returned.messages = StoredOf(Call.returned.sessionId, 60)

\* user_2 asks for the history of a session of user_1 that holds messages and
\* gets none, while user_2 has a session with messages of its own
C27_Witness ==
    /\ memory.kind = "rows" /\ Called
    /\ Call.op = "getChatHistory" /\ Call.userId = "user_2"
    /\ Owns(memory.sessions, Val(Call.sessionId), "user_1")
    /\ StoredOf(Val(Call.sessionId), 200) # <<>>
    /\ Call.returned = <<>>
    /\ \E k \in 1..Len(memory.messages) : memory.messages[k].by = "user_2"

\* ---------------------------------------------------------------- C28
SignedIn == chat.pc # "none" /\ ~IsNull(chat.userId)

\* the step ends the request with the reply of the model
ModelReplied ==
    /\ chat.pc # "done" /\ chat'.pc = "done"
    /\ chat'.status = Some(200) /\ chat'.reply # Some(Text_Setup)

\* the step adds the last user text and then the reply to the request's session
TwoAppended ==
    /\ Len(memory'.messages) = Len(memory.messages) + 2
    /\ SubSeq(memory'.messages, 1, Len(memory.messages)) = memory.messages
    /\ LET n == Len(memory.messages)
           user == memory'.messages[n + 1]
           assistant == memory'.messages[n + 2]
       IN  /\ user.role = "user" /\ user.content = lastUserContent(chat.messages)
           /\ assistant.role = "assistant" /\ Some(assistant.content) = chat'.reply
           /\ user.sessionId = Val(chat'.sessionId)
           /\ assistant.sessionId = Val(chat'.sessionId)
           /\ Owns(memory'.sessions, Val(chat'.sessionId), Val(chat.userId))

HasUserText == lastUserContent(chat.messages) # <<>>

\* C28, as stated: for a signed-in user no ChatMessage row is written unless the
\* model produced a reply (not on a 502, on the first or second OpenAI call or on
\* the Hugging Face call), and on success exactly two messages are appended to
\* the session, the last user text followed by the assistant reply, once.
C28_StoredOnSuccess ==
    [][SignedIn =>
           IF ModelReplied THEN TwoAppended
           ELSE memory'.messages = memory.messages]_vars

\* C28, amended: as above, but the two messages are appended on success only
\* when the request holds a user message; a request of assistant messages only
\* gets its reply and nothing is stored.
C28_StoredOnSuccessWithUserText ==
    [][SignedIn =>
           IF ModelReplied /\ HasUserText THEN TwoAppended
           ELSE memory'.messages = memory.messages]_vars

\* a signed-in request on a session that held two messages, answered after a
\* tool call with a blank text: the user text and the fallback reply follow the
\* two, and nothing else
C28_Witness ==
    /\ SignedIn /\ chat.pc = "done" /\ chat.status = Some(200)
    /\ chat.executed # <<>>
    /\ chat.sessionId = Some(1)
    /\ Len(memory.messages) = 4
    /\ memory.messages[3].content = Text_Hi
    /\ memory.messages[4].content = Text_Sorry
    /\ memory.messages[4].role = "assistant"

\* a signed-in request with no user message, answered: nothing is stored
C28_WitnessNoUserText ==
    /\ SignedIn /\ chat.pc = "done" /\ chat.status = Some(200)
    /\ chat.reply = Some(Text_Sure)
    /\ ~HasUserText
    /\ memory.messages = <<>>

\* ---------------------------------------------------------------- C29
Syncing == plaid.kind = "sync"

\* the cursor a store holds for the connection
StoredCursor(cursorRow) == IF cursorRow = Null THEN Null ELSE Val(cursorRow).cursor

\* the rows a sync leaves when nothing fails: every account upserted, then every
\* page from the stored cursor on
RECURSIVE AccountsAfter(_, _)
AccountsAfter(rows, k) ==
    IF k = 0 THEN rows ELSE upsertAccount(AccountsAfter(rows, k - 1), PlaidAccounts[k])

RECURSIVE AddedAfter(_, _, _, _)
AddedAfter(accountRows, rows, added, k) ==
    IF k = 0 THEN rows
    ELSE storeAdded(accountRows, AddedAfter(accountRows, rows, added, k - 1), added[k])

RECURSIVE PagesAfter(_, _, _)
PagesAfter(accountRows, rows, cursor) ==
    LET sync == transactionsSync(cursor)
        stored == AddedAfter(accountRows, rows, sync.added, Len(sync.added))
    IN  IF sync.has_more THEN PagesAfter(accountRows, stored, Some(sync.next_cursor))
        ELSE [transactions |-> stored, cursor |-> Some(sync.next_cursor)]

Uninterrupted(store) ==
    LET accountRows == AccountsAfter(store.accounts, Len(PlaidAccounts))
        paged == PagesAfter(accountRows, store.transactions, StoredCursor(store.cursorRow))
    IN  [accounts |-> accountRows, transactions |-> paged.transactions,
         cursor |-> paged.cursor]

\* no two account rows of one provider account, no two transaction rows of one
\* account and provider transaction
NoDuplicateRow ==
    /\ \A j, k \in 1..Len(plaid.accounts) :
           plaid.accounts[j].providerAccountId = plaid.accounts[k].providerAccountId
               => j = k
    /\ \A j, k \in 1..Len(plaid.transactions) :
           (/\ plaid.transactions[j].accountId = plaid.transactions[k].accountId
            /\ plaid.transactions[j].providerTransactionId =
                   plaid.transactions[k].providerTransactionId) => j = k

\* until a sync completes the stored cursor is the one the first request found
CursorKept ==
    plaid.pc # "done" => StoredCursor(plaid.cursorRow) = StoredCursor(plaid.start.cursorRow)

\* a completed sync, with or without failed requests before it, leaves the rows
\* and the cursor of a sync that never failed
SameAsUninterrupted ==
    plaid.pc = "done" =>
        /\ plaid.accounts = Uninterrupted(plaid.start).accounts
        /\ plaid.transactions = Uninterrupted(plaid.start).transactions
        /\ StoredCursor(plaid.cursorRow) = Uninterrupted(plaid.start).cursor

\* the stored cursor changes only in the update past the loop, when has_more is
\* false
CursorWrittenPastLoop ==
    StoredCursor(plaid'.cursorRow) # StoredCursor(plaid.cursorRow)
        => plaid.pc = "loop" /\ ~plaid.hasMore /\ plaid'.pc = "done"

\* every request starts its loop from the stored cursor
LoopStartsAtStoredCursor ==
    (plaid.pc = "accounts" /\ plaid'.pc = "loop")
        => plaid'.cursor = StoredCursor(plaid.start.cursorRow)

\* C29: the stored cursor of a connection is overwritten only after the
\* pagination loop has consumed every page (has_more false); if any step fails
\* before that, the stored cursor keeps its previous value, so the next sync
\* restarts from it; a sync that fails part-way and is then retried leaves the
\* same stored accounts and transactions as an uninterrupted sync, with no
\* duplicate row.
C29_RetriedSync ==
    /\ [](Syncing => (CursorKept /\ SameAsUninterrupted /\ NoDuplicateRow))
    /\ [][Syncing => (CursorWrittenPastLoop /\ LoopStartsAtStoredCursor)]_vars

\* a sync completed after two failed requests, one of which stopped in a page
\* with a transaction of that page already stored, on a store that held rows
C29_Witness ==
    /\ Syncing /\ plaid.pc = "done"
    /\ Len(plaid.failures) = MaxFailures
    /\ plaid.start.transactions # <<>>
    /\ \E k \in 1..Len(plaid.failures) :
           /\ plaid.failures[k].pc = "page"
           /\ plaid.failures[k].rows > Len(plaid.start.transactions)
    /\ Len(plaid.transactions) = 3
    /\ plaid.cursorRow = Some([cursor |-> Some(MaxPages)])

\* ---------------------------------------------------------------- C30
\* C30: for any interleaving of concurrent POST setup-intent and POST
\* payment-methods requests of the same user, at most one Stripe customer is
\* created for that user, and User.stripeCustomerId, once set, is never
\* overwritten with a different customer id.
C30_OneCustomer ==
    stripe.kind = "user" =>
        /\ stripe.customers <= 1
        /\ \A j, k \in 1..Len(stripe.held) : stripe.held[j] = stripe.held[k]

\* what holds of C30: a request that reads a stored customer id creates no
\* customer and works on the stored one, and a stored id is one Stripe created
C30_StoredCustomerReused ==
    stripe.kind = "user" =>
        /\ \A r \in 1..Len(stripe.requests) :
               LET q == stripe.requests[r]
               IN  q.pc \in {"linked", "done"} => q.customerId \in {Some(stripe.held[k]) : k \in 1..Len(stripe.held)}
        /\ ~IsNull(stripe.stripeCustomerId) => Val(stripe.stripeCustomerId) \in 1..stripe.customers
        /\ stripe.customers <= Len(stripe.requests) + 1

\* two requests of a user without customer, both answered: two customers exist,
\* the column was overwritten, and one request worked on the customer the user
\* row no longer names
C30_Witness ==
    /\ stripe.kind = "user"
    /\ Len(stripe.requests) = 2
    /\ \A r \in 1..2 : stripe.requests[r].pc = "done"
    /\ stripe.requests[1].route # stripe.requests[2].route
    /\ stripe.customers = 2
    /\ stripe.held = <<1, 2>>
    /\ \E r \in 1..2 : stripe.requests[r].customerId # stripe.stripeCustomerId

====
